---- MODULE Spec2Model ----
(***************************************************************************)
(* A model of the Slack bridge of matterbridge (package bslack):           *)
(*   bridge/slack/slack.go     Connect, Send, sendWebhook, sendAPI and the *)
(*                             platform calls with their rate-limit loops, *)
(*                             uploadFile, handleSlackEvents               *)
(*   bridge/slack/handlers.go  skipMessageEvent, filesCached, fileCached   *)
(*                                                                         *)
(* Strings are real strings (TLC concatenates them with \o), so a cache    *)
(* key is the prefix and the name joined, as in the code.  Time is a clock *)
(* in seconds.  The platform is the environment: every answer it can give  *)
(* to a call (success, a rate-limit error carrying a wait, another error)  *)
(* is a choice of the action that issues the call.                         *)
(***************************************************************************)
EXTENDS Integers, Sequences, FiniteSets, TLC

VARIABLES
  cfg,        \* the bridge's configuration (b.Config), fixed after construction
  pc,         \* where the Send in progress is ("idle": none)
  sent,       \* the message as it was handed to Send
  via,        \* the sender Send called: "webhook" (sendWebhook) or "api" (sendAPI)
  msg,        \* Send's local copy of the message (config.Message)
  extraQ,     \* sendAPI/sendWebhook: the side messages of HandleExtra still to post
  fileIx,     \* uploadFile: index in msg.Extra.file of the file being handled
  uploadTs,   \* uploadFile: ts := time.Now() of the file being handled
  messageID,  \* uploadFile: its messageID local
  rlCount,    \* rate-limit errors the call being retried has received in a row
  calls,      \* every platform call this Send has issued, in order, with its answer
  slept,      \* seconds this Send has spent in handleRateLimit's time.Sleep
  ret,        \* what Send returned: [id, err]
  remote,     \* b.Remote: the messages handed to the relay, in order
  cache,      \* b.cache: the LRU cache, most recently used entry first
  now,        \* the clock, in seconds
  nextFid,    \* the platform's counter of file IDs: the next upload gets this one
  uploads,    \* every upload begun so far: the filename, the time taken, the ID given
  seen,       \* the inbound message events judged so far, with the verdict
  b,          \* the bridge object: what Connect built and started
  conns,      \* the connections of the events listener, each with its request
  joins,      \* the JoinChannel calls made so far, with their results
  inbound,    \* the calls of handleMessageEvent made so far, with their results
  deleted,    \* the calls of handleFileDeletedEvent made so far, with their results
  other,      \* a second Send, called from another goroutine: where it is, its
              \* copy of the message, what it returned
  req,        \* the Events-API request being handled by handleSlackEvents
  resp        \* the HTTP responses handleSlackEvents has written, in order

vars == <<cfg, pc, sent, via, msg, extraQ, fileIx, uploadTs, messageID, rlCount, calls,
          slept, ret, remote, cache, now, nextFid, uploads, seen, req, resp, b, conns, joins,
          inbound, deleted, other>>

sendVars == <<pc, msg, extraQ, fileIx, uploadTs, messageID, rlCount, calls, slept, ret>>

-----------------------------------------------------------------------------
(* Bounds of the model *)

\* The most rate-limit errors in a row the platform gives one call.
MaxRateLimited == 2
\* The most files one message carries in Extra["file"].
MaxFiles == 2
\* The most files a message with a file-failure notice carries.
MaxFilesWithNotice == 1
\* The clock stops here.
MaxTime == 70
\* The capacity of the LRU cache in the model; the code's is 5000 (lru.New(5000)).
CacheSize == 3
\* The most uploads begun in one behaviour.
MaxUploads == 2

\* The step of the clock, in seconds.
ClockStep == 10
\* The most JoinChannel calls in one behaviour.
MaxJoins == 2

\* The most Events-API requests handled in one behaviour.
MaxRequests == 2

-----------------------------------------------------------------------------
(* Constants of the program *)

messageLength == 3000
\* fileCached: time.Minute and 10*time.Second, in seconds
FileIDTTL == 60
FileNameTTL == 10

sChannelJoin == "channel_join"
sChannelLeave == "channel_leave"
sPinnedItem == "pinned_item"
sUnpinnedItem == "unpinned_item"
sChannelTopic == "channel_topic"
sChannelPurpose == "channel_purpose"
sMessageChanged == "message_changed"
sMessageDeleted == "message_deleted"
sSlackBotUser == "slackbot"
cfileDownloadChannel == "file_download_channel"
sChannelJoined == "channel_joined"
sMemberJoined == "member_joined_channel"
sFileComment == "file_comment"
sMeMessage == "me_message"
sSystemUser == "system"
EventJoinLeave == "join_leave"
EventFileDelete == "file_delete"
DeletedNotice == "This message was deleted."

\* bridge/config's event names and the marker of an unresolved thread parent
EventUserTyping == "user_typing"
EventMsgDelete == "msg_delete"
EventTopicChange == "topic_change"
EventUserAction == "user_action"
EventGetChannelMembers == "get_channel_members"
ParentIDNotFound == "msg-parent-not-found"

\* b.uuid, this instance's origin tag, and the block ID built from it
uuid == "u1"
OwnBlockID == "matterbridge_" \o uuid

NoErr == "nil"
ErrRateLimited == "rate_limited"
ErrPlatform == "platform_error"
ErrChannel == "channel_not_found"

-----------------------------------------------------------------------------
(* Text *)

\* helper.ClipMessage(text, length, clippingMessage): a text longer than length
\* is cut to length minus the notice and the notice is appended.
ClipMessage(text, length, clippingMessage) ==
  LET notice == IF clippingMessage = "" THEN " <clipped message>" ELSE clippingMessage
  IN IF Len(text) > length
       THEN SubSeq(text, 1, length - Len(notice)) \o notice
       ELSE text

\* replaceCodeFence: a code fence that names a language loses the name.  The
\* fence, three backquotes in the program, is written ~~~ here.
FencedText == "~~~go"
replaceCodeFence(text) == IF text = FencedText THEN "~~~" ELSE text

\* The two texts of a topic and of a purpose change, as the relay words them.
TopicText == "@bob set the channel topic: t"
PurposeText == "@bob set the channel purpose: p"

\* extractTopicOrPurpose(text): the kind of change and the new value; a text
\* of neither form gives the kind "unknown".
extractTopicOrPurpose(text) ==
  IF text = TopicText THEN <<"topic", "t">>
  ELSE IF text = PurposeText THEN <<"purpose", "p">>
  ELSE <<"unknown", "">>

-----------------------------------------------------------------------------
(* The LRU cache (hashicorp/golang-lru): a sequence of [key, val], the most   *)
(* recently used first.  Add and Get both make the entry the most recent one; *)
(* Add drops the least recent entry when the cache is over its capacity.      *)

CacheHas(c, key) == \E i \in 1..Len(c) : c[i].key = key

CacheVal(c, key) == (CHOOSE e \in {c[i] : i \in 1..Len(c)} : e.key = key).val

CacheWithout(c, key) == SelectSeq(c, LAMBDA e : e.key # key)

CacheAdd(c, key, val) ==
  LET d == <<[key |-> key, val |-> val]>> \o CacheWithout(c, key)
  IN IF Len(d) > CacheSize THEN SubSeq(d, 1, CacheSize) ELSE d

\* The cache after b.cache.Get(key): a hit moves the entry to the front.
CacheGet(c, key) ==
  IF CacheHas(c, key)
    THEN <<[key |-> key, val |-> CacheVal(c, key)]>> \o CacheWithout(c, key)
    ELSE c

-----------------------------------------------------------------------------
(* fileCached, filesCached *)

\* A marker that still counts at the very end of its window.
Fresh_Inclusive(ts, ttl, t) == t - ts <= ttl

\* time.Since(ts) < ttl
Fresh(ts, ttl, t) == t - ts < ttl

\* fileCached's verdict on a file [ID, Name] with the cache c at time t.
fileCached(c, file, t) ==
  IF CacheHas(c, "file" \o file.ID) /\ Fresh(CacheVal(c, "file" \o file.ID), FileIDTTL, t)
    THEN TRUE
  ELSE IF CacheHas(c, "filename" \o file.Name)
          /\ Fresh(CacheVal(c, "filename" \o file.Name), FileNameTTL, t)
    THEN TRUE
  ELSE FALSE

\* The cache after fileCached's lookups: the ID marker is looked up, and the
\* filename marker too unless the ID marker decided.
fileCachedTouch(c, file, t) ==
  LET c1 == CacheGet(c, "file" \o file.ID)
  IN IF CacheHas(c, "file" \o file.ID) /\ Fresh(CacheVal(c, "file" \o file.ID), FileIDTTL, t)
       THEN c1
       ELSE CacheGet(c1, "filename" \o file.Name)

\* filesCached: every file is cached; the loop stops at the first that is not.
RECURSIVE filesCached(_, _, _)
filesCached(c, files, t) ==
  IF files = <<>> THEN TRUE
  ELSE IF ~fileCached(c, Head(files), t) THEN FALSE
  ELSE filesCached(fileCachedTouch(c, Head(files), t), Tail(files), t)

RECURSIVE filesCachedTouch(_, _, _)
filesCachedTouch(c, files, t) ==
  IF files = <<>> THEN c
  ELSE IF ~fileCached(c, Head(files), t) THEN fileCachedTouch(c, Head(files), t)
  ELSE filesCachedTouch(fileCachedTouch(c, Head(files), t), Tail(files), t)

-----------------------------------------------------------------------------
(* Configurations and messages *)

\* Connect accepting only a configuration that has a token.
ConnectOK_TokenOnly(c) == c.token # ""

\* Connect fails unless one of the three is set.
ConnectOK(c) == ~(c.bind = "" /\ c.webhookURL = "" /\ c.token = "")

\* Connect builds b.sc, b.channels and b.users only when a token is set.
HasClient(c) == c.token # ""

\* The configurations Send is run in: every combination of token and outgoing
\* webhook URL (with neither, the incoming bind address is what Connect
\* accepted) and of the three switches sendAPI and sendWebhook read.
SendConfigs ==
  { c \in [token : {"", "xoxb-1"}, webhookURL : {"", "https://hook"},
           bind : {"", ":9999"}, syncTopic : BOOLEAN, showTopicChange : BOOLEAN,
           nickPrefix : BOOLEAN, noSendJoin : {FALSE}, messageClipped : {""}] :
      c.bind = (IF c.token = "" /\ c.webhookURL = "" THEN ":9999" ELSE "") }

\* The i-th file payload (config.FileInfo): the odd ones carry a comment and a URL.
FileInfo(i) ==
  [Name |-> "f" \o ToString(i),
   Comment |-> IF i % 2 = 1 THEN "hello" ELSE "",
   URL |-> IF i % 2 = 1 THEN "http://f/" \o ToString(i) ELSE ""]

FileList(n) == [i \in 1..n |-> FileInfo(i)]

\* Extra: the payload lists under "file", "slack_attachment" and
\* "file_failure_size"; a key is present when its list is not empty.
Extras ==
  { x \in { [file |-> FileList(n), slack_attachment |-> a, file_failure_size |-> f] :
              n \in 0..MaxFiles, a \in {<<>>, <<"att">>}, f \in {<<>>, <<"f9">>} } :
      x.file_failure_size # <<>> => Len(x.file) <= MaxFilesWithNotice }

NoExtra == [file |-> <<>>, slack_attachment |-> <<>>, file_failure_size |-> <<>>]

LenExtra(m) ==
  (IF m.Extra.file # <<>> THEN 1 ELSE 0)
  + (IF m.Extra.slack_attachment # <<>> THEN 1 ELSE 0)
  + (IF m.Extra.file_failure_size # <<>> THEN 1 ELSE 0)

SendEvents == {"", EventUserTyping, EventMsgDelete, EventTopicChange,
               EventUserAction, EventGetChannelMembers}

\* The channels of the directory: "general" resolves (to ID C1), "nowhere" does not.
Resolves(channel) == channel = "general"

\* The messages handed to Send.
Messages ==
  { m \in [Event : SendEvents, ID : {"", "123"},
           Text : {"", "hello", TopicText, PurposeText},
           Username : {"bob"}, Channel : {"general", "nowhere"},
           ParentID : {"", "p1", ParentIDNotFound}, Extra : Extras] :
      m.Text \in {TopicText, PurposeText} => m.Event = EventTopicChange }

NoMsg == [Event |-> "", ID |-> "", Text |-> "", Username |-> "", Channel |-> "",
          ParentID |-> "", Extra |-> NoExtra]

\* helper.HandleExtra: one notice message per file-failure payload.
HandleExtra(m) ==
  [i \in 1..Len(m.Extra.file_failure_size) |->
     [Event |-> "", ID |-> "", Username |-> "<system> ",
      Text |-> "file " \o m.Extra.file_failure_size[i] \o " too big to download",
      Channel |-> m.Channel, ParentID |-> "", Extra |-> NoExtra]]

-----------------------------------------------------------------------------
(* The platform's answers *)

Waits == {1, 2}

\* To a post, an edit, a delete, a set-topic or a set-purpose call.
Answers ==
  {[k |-> "ok", w |-> 0], [k |-> "error", w |-> 0]}
  \cup {[k |-> "rate_limited", w |-> w] : w \in Waits}

\* The error value of an answer.
ErrOf(a) ==
  IF a.k = "ok" THEN NoErr ELSE IF a.k = "rate_limited" THEN ErrRateLimited ELSE ErrPlatform

\* The ID (timestamp) the platform gives a new post, and the one it gives the
\* message that shares an uploaded file.
PostTs == "1700.1"
ShareTs == "1700.2"

\* The file ID the platform assigns to the n-th upload it accepts.
FileID(n) == "F" \o ToString(n)

\* To an upload: the file's ID (it may be empty) and, when the file is shared in
\* the channel, the timestamp of the sharing message; or an error.
UploadAnswers ==
  { [k |-> "ok", fid |-> FileID(nextFid), ts |-> t] : t \in {"", ShareTs} }
  \cup { [k |-> "ok", fid |-> "", ts |-> ""] }
  \cup { [k |-> e, fid |-> "", ts |-> ""] : e \in {"rate_limited", "error"} }

\* handleRateLimit(log, err): a rate-limit error is slept out and becomes nil;
\* any other error comes back as it is.
handleRateLimit(a) ==
  IF a.k = "rate_limited"
    THEN [err |-> NoErr, sleep |-> a.w]
    ELSE [err |-> ErrOf(a), sleep |-> 0]

-----------------------------------------------------------------------------
(* Send, up to its first platform call *)

\* Where a function leaves the Send: the next position, the message, the side
\* messages to post, the return values (read at "done") and what went to the relay.
Goto(p, m, q) == [pc |-> p, msg |-> m, q |-> q, id |-> "", err |-> NoErr, relay |-> <<>>]

Return(m, id, err) == [pc |-> "done", msg |-> m, q |-> <<>>, id |-> id, err |-> err, relay |-> <<>>]

\* Send: the text is clipped, its code fences rewritten, and a /me action is
\* wrapped in underscores.
SendPrepare(m, c) ==
  LET t == replaceCodeFence(ClipMessage(m.Text, messageLength, c.messageClipped))
  IN [m EXCEPT !.Text = IF m.Event = EventUserAction THEN "_" \o t \o "_" ELSE t]

\* Route with the token forgotten: a webhook URL alone selects the webhook.
Route_URLOnly(c) == IF c.webhookURL # "" THEN "webhook" ELSE "api"

\* Send: the transport.
Route(c) == IF c.webhookURL # "" /\ c.token = "" THEN "webhook" ELSE "api"

\* sendWebhook: the text with the URL of every file payload that has one.
RECURSIVE WithFileURLs(_, _)
WithFileURLs(text, files) ==
  IF files = <<>> THEN text
  ELSE WithFileURLs(IF Head(files).URL # "" THEN text \o " " \o Head(files).URL ELSE text,
                    Tail(files))

\* sendWebhook, up to its first mh.Send.
sendWebhook(m, c) ==
  IF m.Event # "" THEN Return(m, "", NoErr)
  ELSE LET m1 == IF c.nickPrefix THEN [m EXCEPT !.Text = m.Username \o m.Text] ELSE m
           m2 == [m1 EXCEPT !.Text = WithFileURLs(m1.Text, m1.Extra.file)]
           q == HandleExtra(m1)
       IN Goto(IF q # <<>> THEN "webhook_extra" ELSE "webhook", m2, q)

\* handleGetChannelMembers: the message it hands to the relay.
MembersMsg ==
  [Event |-> EventGetChannelMembers, ID |-> "", Text |-> "", Username |-> "",
   Channel |-> "", ParentID |-> "",
   Extra |-> [file |-> <<>>, slack_attachment |-> <<>>, file_failure_size |-> <<>>,
              get_channel_members |-> <<"roster">>]]

\* handleTopicOrPurpose passing a synced topic change on to the normal steps
\* after the update is decided (the two switches read in the wrong order).
handleTopicOrPurpose_ShowFirst(m, c) ==
  IF m.Event # EventTopicChange THEN "unhandled"
  ELSE IF c.showTopicChange THEN "unhandled"
  ELSE IF c.syncTopic THEN "update"
  ELSE "swallow"

\* handleTopicOrPurpose that passes on every topic change it does not sync.
handleTopicOrPurpose_NeverSwallow(m, c) ==
  IF m.Event # EventTopicChange THEN "unhandled"
  ELSE IF c.syncTopic THEN "update"
  ELSE "unhandled"

\* handleTopicOrPurpose: "update" (handled by updateTopicOrPurpose), "swallow"
\* (handled, nothing done) or "unhandled" (on to the normal steps).
handleTopicOrPurpose(m, c) ==
  IF m.Event # EventTopicChange THEN "unhandled"
  ELSE IF c.syncTopic THEN "update"
  ELSE IF c.showTopicChange THEN "unhandled"
  ELSE "swallow"

\* updateTopicOrPurpose before its loop: a change of neither kind makes no call.
updateTopicOrPurposeEntry(m) ==
  IF extractTopicOrPurpose(m.Text)[1] \in {"topic", "purpose"}
    THEN Goto("topic", m, <<>>)
    ELSE Return(m, "", NoErr)

\* ThreadHint that leaves the parent reference in place.
ThreadHint_KeepParent(m) ==
  IF m.ParentID = ParentIDNotFound
    THEN [m EXCEPT !.Text = "[thread]: " \o m.Text]
    ELSE m

\* sendAPI: the hint for a message whose thread parent was not found.
ThreadHint(m) ==
  IF m.ParentID = ParentIDNotFound
    THEN [m EXCEPT !.ParentID = "", !.Text = "[thread]: " \o m.Text]
    ELSE m

\* postAPIMessage before its loop: an empty text is not posted.
postAPIMessageEntry(m) ==
  IF m.Text = "" THEN Return(m, "", NoErr) ELSE Goto("post", m, <<>>)

\* uploadFile before its loop: with no file payload it returns at once.
uploadFileEntry(m) ==
  IF m.Extra.file = <<>> THEN Return(m, "", NoErr) ELSE Goto("upload", m, <<>>)

\* sendAPI's branch for a message with Extra: the side messages of HandleExtra,
\* each with its username put before its text, then uploadFile.
sendExtra(m) ==
  LET q == [i \in 1..Len(HandleExtra(m)) |->
              [HandleExtra(m)[i] EXCEPT !.Text = HandleExtra(m)[i].Username \o HandleExtra(m)[i].Text]]
  IN IF q # <<>> THEN Goto("extra", m, q) ELSE uploadFileEntry(m)

\* sendAPIFromEdit taking the Extra branch for every message (>= for >).
sendAPIFromEdit_ExtraAlways(m) ==
  IF m.ID # "" THEN Goto("edit", m, <<>>)
  ELSE IF LenExtra(m) >= 0 THEN sendExtra(m)
  ELSE postAPIMessageEntry(m)

\* sendAPIFromEdit with the Extra branch before the edit.
sendAPIFromEdit_ExtraFirst(m) ==
  IF LenExtra(m) > 0 THEN sendExtra(m)
  ELSE IF m.ID # "" THEN Goto("edit", m, <<>>)
  ELSE postAPIMessageEntry(m)

\* sendAPI from the edit step on: edit, Extra, post.
sendAPIFromEdit(m) ==
  IF m.ID # "" THEN Goto("edit", m, <<>>)
  ELSE IF LenExtra(m) > 0 THEN sendExtra(m)
  ELSE postAPIMessageEntry(m)

\* sendAPI from the delete step on.
sendAPIFromDelete(m, c) ==
  IF m.Event = EventMsgDelete
    THEN IF m.ID = "" THEN Return(m, m.ID, NoErr) ELSE Goto("delete", m, <<>>)
    ELSE sendAPIFromEdit(IF c.nickPrefix THEN [m EXCEPT !.Text = m.Username \o m.Text] ELSE m)

\* sendAPI that resolves the channel before anything else.
sendAPI_ResolveFirst(m, c) ==
  IF ~HasClient(c) THEN Goto("panic", m, <<>>)
  ELSE IF ~Resolves(m.Channel) THEN Return(m, "", ErrChannel)
  ELSE IF m.Event = EventGetChannelMembers
    THEN [Return(m, "", NoErr) EXCEPT !.relay = <<MembersMsg>>]
  ELSE IF m.Event = EventUserTyping THEN Return(m, "", NoErr)
  ELSE IF handleTopicOrPurpose(m, c) = "update" THEN updateTopicOrPurposeEntry(m)
  ELSE IF handleTopicOrPurpose(m, c) = "swallow" THEN Return(m, "", NoErr)
  ELSE sendAPIFromDelete(ThreadHint(m), c)

\* sendAPI, up to its first platform call.  Without a token Connect built no
\* client and no channel directory: the first use of b.channels is a nil
\* dereference.
sendAPI(m, c) ==
  IF ~HasClient(c) THEN Goto("panic", m, <<>>)
  ELSE IF m.Event = EventGetChannelMembers
    THEN [Return(m, "", NoErr) EXCEPT !.relay = <<MembersMsg>>]
  ELSE IF ~Resolves(m.Channel) THEN Return(m, "", ErrChannel)
  ELSE IF m.Event = EventUserTyping THEN Return(m, "", NoErr)
  ELSE IF handleTopicOrPurpose(m, c) = "update" THEN updateTopicOrPurposeEntry(m)
  ELSE IF handleTopicOrPurpose(m, c) = "swallow" THEN Return(m, "", NoErr)
  ELSE sendAPIFromDelete(ThreadHint(m), c)

\* The Send in progress moves on as s says.
Apply(s) ==
  /\ pc' = s.pc
  /\ msg' = s.msg
  /\ extraQ' = s.q
  /\ ret' = [id |-> s.id, err |-> s.err]
  /\ remote' = remote \o s.relay

NoRet == [id |-> "", err |-> NoErr]

\* Send(msg), from the call to the first platform call or to the return.
SendBegin(m) ==
  /\ pc = "idle"
  /\ Apply(IF Route(cfg) = "webhook"
             THEN sendWebhook(SendPrepare(m, cfg), cfg)
             ELSE sendAPI(SendPrepare(m, cfg), cfg))
  /\ sent' = m
  /\ via' = Route(cfg)
  /\ fileIx' = 1
  /\ messageID' = ""
  /\ rlCount' = 0
  /\ calls' = <<>>
  /\ slept' = 0
  /\ UNCHANGED <<cfg, deleted, other, b, conns, joins, inbound, uploadTs, cache, now, nextFid, uploads, seen, req, resp>>

Send == pc = "idle" /\ \E m \in Messages : SendBegin(m)

-----------------------------------------------------------------------------
(* The platform calls and their retry loops *)

\* A platform call of this Send, as logged: the operation, the ID and the text
\* it was given, the answer, and when it was issued.
Call(op, id, text, a) == [op |-> op, id |-> id, text |-> text, k |-> a.k, w |-> a.w, at |-> now]

\* The platform may rate-limit a call only MaxRateLimited times in a row, and
\* the sleep must fit before the clock's end.
MayAnswer(a) == a.k = "rate_limited" => (rlCount < MaxRateLimited /\ now + a.w <= MaxTime)

\* One round of the loop of updateTopicOrPurpose, deleteMessage, editMessage and
\* postAPIMessage on the answer a: "return" on success; else handleRateLimit
\* decides between "again" (after its sleep) and "fail" (the error is returned).
updateTopicOrPurposeLoop(a) ==
  IF ErrOf(a) = NoErr THEN [out |-> "return", err |-> NoErr, sleep |-> 0]
  ELSE IF handleRateLimit(a).err # NoErr
    THEN [out |-> "fail", err |-> handleRateLimit(a).err, sleep |-> 0]
  ELSE [out |-> "again", err |-> NoErr, sleep |-> handleRateLimit(a).sleep]

deleteMessageLoop(a) ==
  IF ErrOf(a) = NoErr THEN [out |-> "return", err |-> NoErr, sleep |-> 0]
  ELSE IF handleRateLimit(a).err # NoErr
    THEN [out |-> "fail", err |-> handleRateLimit(a).err, sleep |-> 0]
  ELSE [out |-> "again", err |-> NoErr, sleep |-> handleRateLimit(a).sleep]

\* editMessageLoop giving up at the second rate-limit error in a row.
editMessageLoop_GiveUp(a) ==
  IF ErrOf(a) = NoErr THEN [out |-> "return", err |-> NoErr, sleep |-> 0]
  ELSE IF handleRateLimit(a).err # NoErr \/ rlCount >= 1
    THEN [out |-> "fail", err |-> ErrOf(a), sleep |-> 0]
  ELSE [out |-> "again", err |-> NoErr, sleep |-> handleRateLimit(a).sleep]

\* editMessageLoop reissuing at once, without the wait.
editMessageLoop_NoWait(a) ==
  IF ErrOf(a) = NoErr THEN [out |-> "return", err |-> NoErr, sleep |-> 0]
  ELSE IF handleRateLimit(a).err # NoErr
    THEN [out |-> "fail", err |-> handleRateLimit(a).err, sleep |-> 0]
  ELSE [out |-> "again", err |-> NoErr, sleep |-> 0]

editMessageLoop(a) ==
  IF ErrOf(a) = NoErr THEN [out |-> "return", err |-> NoErr, sleep |-> 0]
  ELSE IF handleRateLimit(a).err # NoErr
    THEN [out |-> "fail", err |-> handleRateLimit(a).err, sleep |-> 0]
  ELSE [out |-> "again", err |-> NoErr, sleep |-> handleRateLimit(a).sleep]

postAPIMessageLoop(a) ==
  IF ErrOf(a) = NoErr THEN [out |-> "return", err |-> NoErr, sleep |-> 0]
  ELSE IF handleRateLimit(a).err # NoErr
    THEN [out |-> "fail", err |-> handleRateLimit(a).err, sleep |-> 0]
  ELSE [out |-> "again", err |-> NoErr, sleep |-> handleRateLimit(a).sleep]

\* The loop goes round again: handleRateLimit has slept.
Again(sleep) ==
  /\ slept' = slept + sleep
  /\ now' = now + sleep
  /\ rlCount' = rlCount + 1
  /\ UNCHANGED <<pc, msg, extraQ, ret, remote>>

\* The loop is left and the Send moves on as s says.
Leave(s) ==
  /\ Apply(s)
  /\ rlCount' = 0
  /\ UNCHANGED <<slept, now>>

\* updateTopicOrPurpose: one SetTopicOfConversation or SetPurposeOfConversation.
updateTopicOrPurpose(a) ==
  /\ pc = "topic"
  /\ MayAnswer(a)
  /\ calls' = Append(calls,
                Call(IF extractTopicOrPurpose(msg.Text)[1] = "topic"
                       THEN "SetTopicOfConversation" ELSE "SetPurposeOfConversation",
                     "", extractTopicOrPurpose(msg.Text)[2], a))
  /\ LET o == updateTopicOrPurposeLoop(a)
     IN IF o.out = "again" THEN Again(o.sleep) ELSE Leave(Return(msg, "", o.err))
  /\ UNCHANGED <<cfg, deleted, other, b, conns, joins, inbound, sent, via, fileIx, uploadTs, messageID, cache, nextFid, uploads, seen, req, resp>>

\* deleteMessage with sendAPI returning no ID after it.
deleteMessage_NoID(a) ==
  /\ pc = "delete"
  /\ MayAnswer(a)
  /\ calls' = Append(calls, Call("DeleteMessage", msg.ID, "", a))
  /\ LET o == deleteMessageLoop(a)
     IN IF o.out = "again" THEN Again(o.sleep) ELSE Leave(Return(msg, "", o.err))
  /\ UNCHANGED <<cfg, deleted, other, b, conns, joins, inbound, sent, via, fileIx, uploadTs, messageID, cache, nextFid, uploads, seen, req, resp>>

\* deleteMessage: one DeleteMessage; sendAPI returns msg.ID with its error.
deleteMessage(a) ==
  /\ pc = "delete"
  /\ MayAnswer(a)
  /\ calls' = Append(calls, Call("DeleteMessage", msg.ID, "", a))
  /\ LET o == deleteMessageLoop(a)
     IN IF o.out = "again" THEN Again(o.sleep) ELSE Leave(Return(msg, msg.ID, o.err))
  /\ UNCHANGED <<cfg, deleted, other, b, conns, joins, inbound, sent, via, fileIx, uploadTs, messageID, cache, nextFid, uploads, seen, req, resp>>

\* editMessage: one UpdateMessage; sendAPI returns msg.ID with its error.
editMessage(a) ==
  /\ pc = "edit"
  /\ MayAnswer(a)
  /\ calls' = Append(calls, Call("UpdateMessage", msg.ID, msg.Text, a))
  /\ LET o == editMessageLoop(a)
     IN IF o.out = "again" THEN Again(o.sleep) ELSE Leave(Return(msg, msg.ID, o.err))
  /\ UNCHANGED <<cfg, deleted, other, b, conns, joins, inbound, sent, via, fileIx, uploadTs, messageID, cache, nextFid, uploads, seen, req, resp>>

\* postAPIMessage for the message itself: one PostMessage; the new ID on success.
postAPIMessage(a) ==
  /\ pc = "post"
  /\ MayAnswer(a)
  /\ calls' = Append(calls, Call("PostMessage", "", msg.Text, a))
  /\ LET o == postAPIMessageLoop(a)
     IN IF o.out = "again" THEN Again(o.sleep)
        ELSE Leave(Return(msg, IF o.out = "return" THEN PostTs ELSE "", o.err))
  /\ UNCHANGED <<cfg, deleted, other, b, conns, joins, inbound, sent, via, fileIx, uploadTs, messageID, cache, nextFid, uploads, seen, req, resp>>

\* postAPIMessage for a side message of HandleExtra: its error is logged only;
\* after the last one comes uploadFile.
postExtraMessage(a) ==
  /\ pc = "extra"
  /\ MayAnswer(a)
  /\ calls' = Append(calls, Call("PostMessage", "", Head(extraQ).Text, a))
  /\ LET o == postAPIMessageLoop(a)
     IN IF o.out = "again" THEN Again(o.sleep)
        ELSE IF Tail(extraQ) # <<>> THEN Leave(Goto("extra", msg, Tail(extraQ)))
        ELSE Leave(uploadFileEntry(msg))
  /\ UNCHANGED <<cfg, deleted, other, b, conns, joins, inbound, sent, via, fileIx, uploadTs, messageID, cache, nextFid, uploads, seen, req, resp>>

\* uploadFile, one file, up to the UploadFile call: the message's text is
\* emptied when it is the file's comment, and the filename marker is cached
\* with the time taken now.
uploadFileCall ==
  /\ pc = "upload"
  /\ LET fi == msg.Extra.file[fileIx]
     IN /\ msg' = IF msg.Text = fi.Comment THEN [msg EXCEPT !.Text = ""] ELSE msg
        /\ cache' = CacheAdd(cache, "filename" \o fi.Name, now)
  /\ uploadTs' = now
  /\ uploads' = Append(uploads, [name |-> msg.Extra.file[fileIx].Name, ts |-> now,
                                  fid |-> "", done |-> FALSE, failed |-> FALSE])
  /\ pc' = "uploading"
  /\ UNCHANGED <<cfg, deleted, other, b, conns, joins, inbound, sent, via, extraQ, fileIx, messageID, rlCount, calls, slept, ret, remote,
                 now, nextFid, seen, req, resp>>

\* uploadFile, one file, from the answer of UploadFile: an error of any kind is
\* returned; a file ID is cached with the time taken before the call.
uploadFileAnswer(a) ==
  /\ pc = "uploading"
  /\ calls' = Append(calls, Call("UploadFile", a.fid, msg.Extra.file[fileIx].Name,
                                 [k |-> a.k, w |-> 0]))
  /\ uploads' = [uploads EXCEPT ![Len(uploads)] = [@ EXCEPT !.fid = a.fid, !.done = TRUE,
                                                             !.failed = (a.k # "ok")]]
  /\ IF a.k # "ok"
       THEN /\ Apply(Return(msg, "", ErrOf(a)))
            /\ UNCHANGED <<cache, messageID, fileIx, nextFid>>
       ELSE /\ cache' = IF a.fid # "" THEN CacheAdd(cache, "file" \o a.fid, uploadTs) ELSE cache
            /\ messageID' = IF a.fid # "" /\ a.ts # "" THEN a.ts ELSE messageID
            /\ fileIx' = fileIx + 1
            /\ nextFid' = IF a.fid # "" THEN nextFid + 1 ELSE nextFid
            /\ IF fileIx < Len(msg.Extra.file)
                 THEN Apply(Goto("upload", msg, <<>>))
                 ELSE Apply(Return(msg, messageID', NoErr))
  /\ UNCHANGED <<cfg, deleted, other, b, conns, joins, inbound, sent, via, uploadTs, rlCount, slept, now, seen, req, resp>>

\* sendWebhook: mh.Send of a side message of HandleExtra; its error is logged only.
webhookExtra(a) ==
  /\ pc = "webhook_extra"
  /\ calls' = Append(calls, Call("WebhookSend", "", Head(extraQ).Text, a))
  /\ Apply(Goto(IF Tail(extraQ) # <<>> THEN "webhook_extra" ELSE "webhook", msg, Tail(extraQ)))
  /\ UNCHANGED <<cfg, deleted, other, b, conns, joins, inbound, sent, via, fileIx, uploadTs, messageID, rlCount, slept, cache, now, nextFid, uploads, seen, req, resp>>

\* sendWebhook: mh.Send of the message; its error is returned.
webhookSend(a) ==
  /\ pc = "webhook"
  /\ calls' = Append(calls, Call("WebhookSend", "", msg.Text, a))
  /\ Apply(Return(msg, "", ErrOf(a)))
  /\ UNCHANGED <<cfg, deleted, other, b, conns, joins, inbound, sent, via, fileIx, uploadTs, messageID, rlCount, slept, cache, now, nextFid, uploads, seen, req, resp>>

\* The answers of the webhook: it takes the message or it fails.
HookAnswers == {[k |-> "ok", w |-> 0], [k |-> "error", w |-> 0]}

\* The steps of a Send after SendBegin.
SendStep ==
  \/ \E a \in Answers : updateTopicOrPurpose(a)
  \/ \E a \in Answers : deleteMessage(a)
  \/ \E a \in Answers : editMessage(a)
  \/ \E a \in Answers : postAPIMessage(a)
  \/ \E a \in Answers : postExtraMessage(a)
  \/ uploadFileCall
  \/ \E a \in UploadAnswers : uploadFileAnswer(a)
  \/ \E a \in HookAnswers : webhookExtra(a)
  \/ \E a \in HookAnswers : webhookSend(a)

-----------------------------------------------------------------------------
(* The bridge object and Connect *)

\* newBridge: nothing is built or started; legacy is set by the constructor of
\* the legacy bridge only.
newBridge(legacy) ==
  [state |-> "new", sc |-> FALSE, channels |-> FALSE, users |-> FALSE, mh |-> FALSE,
   mhUrl |-> "", eventServer |-> "nil", handleSlack |-> FALSE, legacy |-> legacy,
   useChannelID |-> FALSE]

\* The bridge after Connect: with nothing configured it is left as it was and
\* Connect returns the error; with a token the client, the directories and the
\* events listener; in every accepted configuration the webhook client, with
\* its URL when there is one, and the receive loop when a bind address is set.
ConnectResult(c, b0) ==
  IF ~ConnectOK(c) THEN [b0 EXCEPT !.state = "failed"]
  ELSE [b0 EXCEPT !.state = "connected",
                  !.sc = c.token # "", !.channels = c.token # "", !.users = c.token # "",
                  !.eventServer = IF c.token # "" THEN "serving" ELSE "nil",
                  !.mh = TRUE, !.mhUrl = c.webhookURL,
                  !.handleSlack = c.bind # ""]

-----------------------------------------------------------------------------
(* Send, one message in every configuration *)

NoReq == [Type |-> "none"]

\* No second Send is running.
NoOther == [pc |-> "idle", during |-> "idle", msg |-> NoMsg, calls |-> <<>>, ret |-> NoRet]

InitRest ==
  /\ pc = "idle"
  /\ sent = NoMsg
  /\ via = "none"
  /\ msg = NoMsg
  /\ extraQ = <<>>
  /\ fileIx = 1
  /\ uploadTs = 0
  /\ messageID = ""
  /\ rlCount = 0
  /\ calls = <<>>
  /\ slept = 0
  /\ ret = NoRet
  /\ remote = <<>>
  /\ cache = <<>>
  /\ now = 0
  /\ nextFid = 1
  /\ uploads = <<>>
  /\ seen = <<>>
  /\ req = NoReq
  /\ resp = <<>>
  /\ conns = <<>>
  /\ joins = <<>>
  /\ inbound = <<>>
  /\ deleted = <<>>
  /\ other = NoOther

\* The bridge has been connected.
Connected == b = ConnectResult(cfg, newBridge(FALSE))

Init == cfg \in SendConfigs /\ InitRest /\ Connected

Next == Send \/ SendStep

Spec == Init /\ [][Next]_vars

-----------------------------------------------------------------------------
(* Properties of one Send *)

\* The operations of the log.
Ops(ops) == {i \in 1..Len(calls) : calls[i].op \in ops}

\* The platform accepted every call of this Send at once.
AllAccepted == \A i \in 1..Len(calls) : calls[i].k = "ok"

RateLimitedCalls == {i \in 1..Len(calls) : calls[i].k = "rate_limited"}

TokenMode == cfg.token # ""

\* The calls that sit in a retry loop.
LoopOps == {"SetTopicOfConversation", "SetPurposeOfConversation", "DeleteMessage",
            "UpdateMessage", "PostMessage"}

\* C1: Send calls sendWebhook exactly when an outgoing webhook URL is set and no
\* token is; otherwise it calls sendAPI.  Only a Send routed to sendWebhook
\* issues webhook sends, and it issues nothing else.
C1_Routing ==
  pc # "idle" =>
    /\ via \in {"webhook", "api"}
    /\ (via = "webhook") = (cfg.webhookURL # "" /\ cfg.token = "")
    /\ (via = "api") = ~(cfg.webhookURL # "" /\ cfg.token = "")
    /\ \A i \in 1..Len(calls) : (calls[i].op = "WebhookSend") = (via = "webhook")

C1_Witness ==
  /\ pc = "done" /\ via = "webhook" /\ Len(calls) = 1
  /\ cfg.webhookURL # "" /\ cfg.token = ""

\* C2: a call that was rate-limited twice, with waits w1 and w2, and then
\* accepted was issued three times with the same arguments, the second not
\* before w1 after the first and the third not before w2 after the second; the
\* Send slept w1 + w2 in all and returned no error.
C2_RetryTwice ==
  ( /\ pc = "done"
    /\ sent.Extra.file_failure_size = <<>> /\ sent.Extra.file = <<>>
    /\ Len(calls) >= 3
    /\ calls[1].op \in LoopOps
    /\ calls[1].k = "rate_limited" /\ calls[2].k = "rate_limited" /\ calls[3].k = "ok" )
  => /\ Len(calls) = 3
     /\ \A i \in 2..3 : /\ calls[i].op = calls[1].op
                        /\ calls[i].id = calls[1].id
                        /\ calls[i].text = calls[1].text
     /\ calls[2].at >= calls[1].at + calls[1].w
     /\ calls[3].at >= calls[2].at + calls[2].w
     /\ slept = calls[1].w + calls[2].w
     /\ calls[3].at - calls[1].at = calls[1].w + calls[2].w
     /\ ret.err = NoErr

C2_Witness ==
  /\ pc = "done" /\ Len(calls) = 3 /\ calls[1].op = "UpdateMessage"
  /\ calls[1].k = "rate_limited" /\ calls[1].w = 1
  /\ calls[2].k = "rate_limited" /\ calls[2].w = 2
  /\ calls[3].k = "ok" /\ slept = 3 /\ ret.err = NoErr

\* C3: every call sendAPI makes is reissued after a rate-limit error (in the
\* log a rate-limited call is followed by the same call again), and Send never
\* returns a rate-limit error.
C3_RateLimitAbsorbed ==
  (pc = "done" /\ via = "api") =>
    /\ ret.err # ErrRateLimited
    /\ \A i \in RateLimitedCalls :
         i < Len(calls) /\ calls[i + 1].op = calls[i].op /\ calls[i + 1].text = calls[i].text

\* C7: in token mode, a plain message (no Event, no ID, no Extra, a text) to a
\* channel that resolves, accepted by the platform, makes one PostMessage call
\* and no other, and Send returns the ID the platform gave and no error.
C7_PlainPost ==
  ( /\ pc = "done" /\ TokenMode
    /\ sent.Event = "" /\ sent.ID = "" /\ LenExtra(sent) = 0 /\ sent.Text # ""
    /\ Resolves(sent.Channel)
    /\ AllAccepted )
  => /\ Len(calls) = 1
     /\ calls[1].op = "PostMessage"
     /\ ret.id = PostTs /\ ret.id # "" /\ ret.err = NoErr

C7_Witness ==
  /\ pc = "done" /\ TokenMode /\ sent.Event = "" /\ sent.ID = ""
  /\ LenExtra(sent) = 0 /\ sent.Text = "hello" /\ Resolves(sent.Channel)
  /\ Len(calls) = 1 /\ calls[1].k = "ok" /\ ret = [id |-> PostTs, err |-> NoErr]

\* C8: in token mode, a message with no Event and an ID, to a channel that
\* resolves, accepted by the platform, makes one UpdateMessage call for that ID
\* and no PostMessage or UploadFile call, with or without Extra.
C8_EditOnly ==
  ( /\ pc = "done" /\ TokenMode
    /\ sent.Event = "" /\ sent.ID # ""
    /\ Resolves(sent.Channel)
    /\ AllAccepted )
  => /\ Len(calls) = 1
     /\ calls[1].op = "UpdateMessage" /\ calls[1].id = sent.ID
     /\ Ops({"PostMessage", "UploadFile"}) = {}

C8_Witness ==
  /\ pc = "done" /\ TokenMode /\ sent.Event = "" /\ sent.ID = "123"
  /\ Len(sent.Extra.file) = MaxFiles /\ sent.Extra.file_failure_size = <<>>
  /\ Resolves(sent.Channel) /\ Len(calls) = 1 /\ calls[1].k = "ok"

TopicOps == {"SetTopicOfConversation", "SetPurposeOfConversation"}

\* The Send is of a topic change, with topic-sync on, to a channel that resolves.
SyncedTopicChange ==
  /\ pc # "idle" /\ cfg.syncTopic /\ sent.Event = EventTopicChange /\ Resolves(sent.Channel)

\* C10 as stated: with topic-sync on, the Send of a topic change to a channel
\* that resolves makes exactly one set-topic or set-purpose call and no
\* PostMessage call.
C10_ExactlyOneTopicCall ==
  (SyncedTopicChange /\ pc = "done") =>
    /\ Cardinality(Ops(TopicOps)) = 1
    /\ Ops({"PostMessage"}) = {}

\* C10 as amended: in token mode such a Send makes no PostMessage call and no
\* call but set-topic or set-purpose; when it has returned it has made none if
\* the text names neither a topic nor a purpose change, and otherwise one plus
\* one for each rate-limit error, so exactly one when the platform accepts at once.
C10_TopicCallsOnly ==
  (SyncedTopicChange /\ TokenMode) =>
    /\ Ops(TopicOps) = 1..Len(calls)
    /\ Ops({"PostMessage"}) = {}
    /\ pc \in {"topic", "done"}
    /\ pc = "done" =>
         IF extractTopicOrPurpose(sent.Text)[1] \in {"topic", "purpose"}
           THEN /\ Len(calls) = 1 + Cardinality(RateLimitedCalls)
                /\ AllAccepted => Len(calls) = 1
                /\ \A i \in 1..Len(calls) :
                     calls[i].op = (IF extractTopicOrPurpose(sent.Text)[1] = "topic"
                                      THEN "SetTopicOfConversation"
                                      ELSE "SetPurposeOfConversation")
           ELSE calls = <<>>

C10_Witness ==
  /\ SyncedTopicChange /\ TokenMode /\ cfg.showTopicChange /\ pc = "done"
  /\ sent.Text = PurposeText /\ Len(calls) = 1
  /\ calls[1].op = "SetPurposeOfConversation" /\ calls[1].k = "ok"

\* sendAPI has carried the message past the hint step to one of the later
\* steps, and that step has not yet acted on it.
PastThreadHint ==
  via = "api" /\ pc \in {"delete", "edit", "extra", "upload", "post"} /\ calls = <<>>

\* The nickname sendAPI puts before the text of a message that is not a deletion.
NickOf(m, c) == IF c.nickPrefix /\ m.Event # EventMsgDelete THEN m.Username ELSE ""

\* C11: a message whose thread parent was not found goes on to the delete,
\* edit, upload and post steps with an empty parent and with "[thread]: " put
\* once before its text; any other message goes on with its parent and text as
\* they were (the text after Send's preparation, behind the nickname when the
\* nickname prefix is on).
C11_ThreadFallback ==
  PastThreadHint =>
    IF sent.ParentID = ParentIDNotFound
      THEN /\ msg.ParentID = ""
           /\ msg.Text = NickOf(sent, cfg) \o "[thread]: " \o SendPrepare(sent, cfg).Text
      ELSE /\ msg.ParentID = sent.ParentID
           /\ msg.Text = NickOf(sent, cfg) \o SendPrepare(sent, cfg).Text

C11_Witness ==
  /\ PastThreadHint /\ pc = "post" /\ ~cfg.nickPrefix
  /\ sent.ParentID = ParentIDNotFound /\ sent.Text = "hello"
  /\ msg.ParentID = "" /\ msg.Text = "[thread]: hello"

\* The Send has returned from sendAPI at or after the delete step.
ReachedDelete ==
  /\ pc = "done" /\ via = "api"
  /\ sent.Event \notin {EventGetChannelMembers, EventUserTyping}
  /\ Resolves(sent.Channel)
  /\ handleTopicOrPurpose(SendPrepare(sent, cfg), cfg) = "unhandled"

\* The Send was a deletion, or else an edit.
DeleteOrEdit == ReachedDelete /\ (sent.Event = EventMsgDelete \/ sent.ID # "")

\* The Send was handled as a typing notice, a topic change, a deletion or a
\* channel-members request.
EventOnly ==
  /\ pc = "done" /\ sent.Event # ""
  /\ \/ sent.Event \in {EventGetChannelMembers, EventUserTyping}
     \/ /\ sent.Event = EventTopicChange
        /\ handleTopicOrPurpose(SendPrepare(sent, cfg), cfg) # "unhandled"
     \/ sent.Event = EventMsgDelete /\ ReachedDelete

\* The ID returned is the one the platform gave to a new post or to the
\* message that shares an uploaded file.
NewPostOrUpload ==
  \/ /\ ret.id = PostTs /\ calls # <<>>
     /\ calls[Len(calls)].op = "PostMessage" /\ calls[Len(calls)].k = "ok"
  \/ /\ ret.id = ShareTs
     /\ \E i \in Ops({"UploadFile"}) : calls[i].k = "ok"

\* C16 as stated: an event-only Send returns an empty ID, and a non-empty ID
\* is only ever the platform's ID of a new post or upload.
C16_EventOnlyEmptyID ==
  /\ EventOnly => ret.id = ""
  /\ pc = "done" /\ ret.id # "" => NewPostOrUpload

\* C16, corrected: a deletion and an edit return the ID the message came
\* with, whatever the outcome of the call; every other event-only Send and every
\* webhook Send returns an empty ID; any other non-empty ID is the platform's ID
\* of a new post or upload.
C16_ReturnedID ==
  /\ DeleteOrEdit => ret.id = sent.ID
  /\ EventOnly /\ sent.Event # EventMsgDelete => ret.id = ""
  /\ pc = "done" /\ via = "webhook" => ret.id = ""
  /\ pc = "done" /\ ret.id # "" /\ ~DeleteOrEdit => NewPostOrUpload

C16_Witness ==
  /\ DeleteOrEdit /\ sent.Event = EventMsgDelete /\ sent.ID = "123"
  /\ Len(calls) = 1 /\ calls[1].op = "DeleteMessage" /\ calls[1].k = "ok"
  /\ ret = [id |-> "123", err |-> NoErr]

\* C17: in token mode a message with no event, no ID, a text, and an Extra
\* that carries native attachments only is posted as a new message: the Send
\* makes PostMessage calls, and the platform accepts at most one.
C17_NativeAttachmentsPosted ==
  /\ pc = "done" /\ via = "api" /\ Resolves(sent.Channel)
  /\ sent.Event = "" /\ sent.ID = "" /\ sent.Text # ""
  /\ sent.Extra.slack_attachment # <<>>
  /\ sent.Extra.file = <<>> /\ sent.Extra.file_failure_size = <<>>
  => /\ Ops({"PostMessage"}) # {}
     /\ Cardinality({i \in Ops({"PostMessage"}) : calls[i].k = "ok"}) <= 1

\* The Send is of a topic change, with topic-sync off, through sendAPI, to a
\* channel that resolves.
UnsyncedTopicChange ==
  /\ pc # "idle" /\ via = "api" /\ TokenMode /\ ~cfg.syncTopic
  /\ sent.Event = EventTopicChange /\ Resolves(sent.Channel)

C26_MembersBypass ==
  pc # "idle" /\ via = "api" /\ TokenMode /\ sent.Event = EventGetChannelMembers
    => /\ pc = "done" /\ calls = <<>>
       /\ remote = <<MembersMsg>>
       /\ MembersMsg.Extra.get_channel_members # <<>>
       /\ ret = [id |-> "", err |-> NoErr]

\* A channel-members request for a channel that does not resolve was answered.
C26_Witness ==
  /\ pc = "done" /\ via = "api" /\ TokenMode /\ sent.Event = EventGetChannelMembers
  /\ ~Resolves(sent.Channel)
  /\ remote = <<MembersMsg>> /\ ret = [id |-> "", err |-> NoErr]

-----------------------------------------------------------------------------
(* The retry loops alone: Sends that are one platform call, in token mode,   *)
(* with topic-sync on.  The goroutine that runs Send keeps running and the   *)
(* platform answers every call, so a step of a loop that can be taken is     *)
(* taken (weak fairness); the platform stops rate-limiting a call after      *)
(* MaxRateLimited errors in a row.                                           *)

RetryConfigs == {c \in SendConfigs : c.token # "" /\ c.webhookURL = "" /\ c.syncTopic}

RetryMessages ==
  {m \in Messages : Resolves(m.Channel) /\ m.Extra = NoExtra /\ m.ParentID = ""}

SendRetry == pc = "idle" /\ \E m \in RetryMessages : SendBegin(m)

RetryStep ==
  \/ \E a \in Answers : updateTopicOrPurpose(a)
  \/ \E a \in Answers : deleteMessage(a)
  \/ \E a \in Answers : editMessage(a)
  \/ \E a \in Answers : postAPIMessage(a)

InitRetry == cfg \in RetryConfigs /\ InitRest /\ Connected

NextRetry == SendRetry \/ RetryStep

SpecRetry == InitRetry /\ [][NextRetry]_vars /\ WF_vars(RetryStep)

InLoop == pc \in {"topic", "delete", "edit", "post"}

\* C4: the retry loop has no attempt limit.  A call that has had n rate-limit
\* errors in a row is issued once more, for every n the platform gives; the
\* Send returns only after an answer that is a success or another error, every
\* answer before it a rate-limit error, and it returns that error, or none on
\* success; and a Send in a loop does return.
C4_RetryUnbounded ==
  /\ [](pc = "done" /\ calls # <<>> =>
          /\ calls[Len(calls)].k \in {"ok", "error"}
          /\ \A i \in 1..(Len(calls) - 1) : calls[i].k = "rate_limited"
          /\ calls[Len(calls)].k = "error" => ret.err = ErrPlatform
          /\ calls[Len(calls)].k = "ok" => ret.err = NoErr)
  /\ [](InLoop => Len(calls) = rlCount /\ RateLimitedCalls = 1..Len(calls))
  /\ \A n \in 0..MaxRateLimited : (InLoop /\ rlCount = n) ~> (Len(calls) = n + 1)
  /\ InLoop ~> (pc = "done")

C4_Witness ==
  /\ pc = "done" /\ Len(calls) = MaxRateLimited + 1
  /\ calls[1].op = "UpdateMessage"
  /\ \A i \in 1..MaxRateLimited : calls[i].k = "rate_limited"
  /\ calls[Len(calls)].k = "ok" /\ ret = [id |-> "123", err |-> NoErr]

-----------------------------------------------------------------------------
(* skipMessageEvent *)

\* A rich-content block: whether it is a section block, and its block ID.
OwnBlock == [section |-> TRUE, BlockID |-> OwnBlockID]
OtherBlock == [section |-> TRUE, BlockID |-> "matterbridge_u2"]
OwnIDNoSection == [section |-> FALSE, BlockID |-> OwnBlockID]

BlockSets == {<<>>, <<OwnBlock>>, <<OtherBlock>>, <<OwnIDNoSection>>, <<OwnBlock, OtherBlock>>}

\* ev.SubMessage: nil, or the prior version of the message.
NoSubMessage ==
  [present |-> FALSE, ThreadTimestamp |-> "", Timestamp |-> "", Edited |-> FALSE, Blocks |-> <<>>]

SubMessages ==
  {NoSubMessage} \cup
  [present : {TRUE}, ThreadTimestamp : {"", "t1"}, Timestamp : {"t1"}, Edited : BOOLEAN,
   Blocks : BlockSets]

\* The files an inbound event can carry: [ID, Name].
SeenFiles == [ID : {FileID(i) : i \in 1..MaxUploads} \cup {"Fx"},
              Name : {FileInfo(i).Name : i \in 1..MaxFiles}]

\* len(blocks) == 1 and the block is a section block with our ID.
OurCallbackID(blocks) ==
  Len(blocks) = 1 /\ blocks[1].section /\ blocks[1].BlockID = OwnBlockID

\* skipMessageEvent, up to the look at the files: "skip", "keep" or "files".
skipMessageEventRules(ev, c) ==
  IF ev.SubType \in {sChannelLeave, sChannelJoin}
    THEN (IF c.noSendJoin THEN "skip" ELSE "keep")
  ELSE IF ev.SubType \in {sPinnedItem, sUnpinnedItem} THEN "skip"
  ELSE IF ev.SubType \in {sChannelTopic, sChannelPurpose}
          /\ (ev.User = "" \/ ev.User = sSlackBotUser) THEN "skip"
  ELSE LET own == OurCallbackID(ev.Blocks)
           sub == ev.SubMessage
       IN IF sub.present /\ sub.ThreadTimestamp # sub.Timestamp /\ ~sub.Edited THEN "skip"
          ELSE IF sub.present /\ ev.SubType = "message_replied" /\ ev.Hidden THEN "skip"
          ELSE LET has == IF sub.present /\ Len(sub.Blocks) = 1
                            THEN OurCallbackID(sub.Blocks) ELSE own
               IN IF ev.Username = sSlackBotUser \/ has THEN "skip"
                  ELSE IF Len(ev.Files) > 0 THEN "files"
                  ELSE "keep"

\* skipMessageEvent's verdict with the cache k at time t.
skipMessageEvent(ev, c, k, t) ==
  LET r == skipMessageEventRules(ev, c)
  IN IF r = "files" THEN filesCached(k, ev.Files, t) ELSE r = "skip"

\* The cache after skipMessageEvent.
skipMessageEventTouch(ev, c, k, t) ==
  IF skipMessageEventRules(ev, c) = "files" THEN filesCachedTouch(k, ev.Files, t) ELSE k

\* One call of skipMessageEvent: the verdict is recorded with the time, and with
\* which markers of the event's first file the cache held at the call.
skipMessageEventCall(ev) ==
  /\ seen' = Append(seen,
       [ev |-> ev, at |-> now, skipped |-> skipMessageEvent(ev, cfg, cache, now),
        hadID |-> ev.Files # <<>> /\ CacheHas(cache, "file" \o ev.Files[1].ID),
        hadName |-> ev.Files # <<>> /\ CacheHas(cache, "filename" \o ev.Files[1].Name)])
  /\ cache' = skipMessageEventTouch(ev, cfg, cache, now)
  /\ UNCHANGED <<cfg, deleted, other, b, conns, joins, inbound, pc, sent, via, msg, extraQ, fileIx, uploadTs, messageID, rlCount, calls,
                 slept, ret, remote, now, nextFid, uploads, req, resp>>

-----------------------------------------------------------------------------
(* skipMessageEvent on every event, with join/leave suppression on and off *)

SkipEvents ==
  [SubType : {"", sChannelJoin, sChannelLeave, sPinnedItem, sUnpinnedItem, sChannelTopic,
              sChannelPurpose, "message_replied", sMessageChanged},
   User : {"", "U1", sSlackBotUser},
   Username : {"alice", sSlackBotUser},
   Hidden : BOOLEAN,
   Blocks : BlockSets,
   SubMessage : SubMessages,
   Files : {<<>>, <<[ID |-> "Fx", Name |-> FileInfo(1).Name]>>}]

SkipConfigs ==
  {c \in [token : {"xoxb"}, webhookURL : {""}, bind : {""}, syncTopic : {FALSE},
          showTopicChange : {FALSE}, nickPrefix : {FALSE}, noSendJoin : BOOLEAN,
          messageClipped : {""}] : TRUE}

skipOne == seen = <<>> /\ \E ev \in SkipEvents : skipMessageEventCall(ev)

InitSkip == cfg \in SkipConfigs /\ InitRest /\ Connected

NextSkip == skipOne

SpecSkip == InitSkip /\ [][NextSkip]_vars

\* The event carries our tag: exactly one block, ours, in the event or in its
\* prior version.
CarriesOwnTag(ev) ==
  \/ Len(ev.Blocks) = 1 /\ ev.Blocks[1].BlockID = OwnBlockID
  \/ ev.SubMessage.present /\ Len(ev.SubMessage.Blocks) = 1
     /\ ev.SubMessage.Blocks[1].BlockID = OwnBlockID

\* C6: skipMessageEvent returns true for every event that carries, in the event
\* or in its prior-version sub-event, exactly one block whose ID is our own tag,
\* whatever the subtype, user, hidden flag, files and the other block list are.
C6_OwnTagSkipped ==
  \A i \in 1..Len(seen) : CarriesOwnTag(seen[i].ev) => seen[i].skipped

-----------------------------------------------------------------------------
(* Uploads, the clock, and one inbound sighting of a file *)

DedupConfigs == SkipConfigs

\* The relay sends a message with one file.
DedupMessages ==
  { [Event |-> "", ID |-> "", Text |-> "hello", Username |-> "bob", Channel |-> "general",
     ParentID |-> "",
     Extra |-> [file |-> <<FileInfo(i)>>, slack_attachment |-> <<>>,
                file_failure_size |-> <<>>]] : i \in 1..MaxFiles }

\* An inbound event with one file, ordinary or a channel join.
DedupEvents ==
  [SubType : {"", sChannelJoin}, User : {"U1"}, Username : {"alice"}, Hidden : {FALSE},
   Blocks : {<<>>}, SubMessage : {NoSubMessage}, Files : {<<f>> : f \in SeenFiles}]

SendDedup ==
  /\ pc = "idle"
  /\ Len(uploads) < MaxUploads
  /\ \E m \in DedupMessages : SendBegin(m)

\* Send has returned: its locals are gone, and the relay may call it again.
SendReturn ==
  /\ pc = "done"
  /\ pc' = "idle"
  /\ sent' = NoMsg /\ via' = "none" /\ msg' = NoMsg /\ extraQ' = <<>>
  /\ fileIx' = 1 /\ uploadTs' = 0 /\ messageID' = ""
  /\ rlCount' = 0 /\ calls' = <<>> /\ slept' = 0 /\ ret' = NoRet
  /\ UNCHANGED <<cfg, deleted, other, b, conns, joins, inbound, remote, cache, now, nextFid, uploads, seen, req, resp>>

\* Time passes: between two Sends, or while the platform handles an upload.
Tick ==
  /\ pc \in {"idle", "uploading"}
  /\ now + ClockStep <= MaxTime
  /\ now' = now + ClockStep
  /\ UNCHANGED <<cfg, deleted, other, b, conns, joins, inbound, pc, sent, via, msg, extraQ, fileIx, uploadTs, messageID, rlCount, calls,
                 slept, ret, remote, cache, nextFid, uploads, seen, req, resp>>

\* An inbound event arrives between two Sends, or during an upload.
sightOne ==
  /\ pc \in {"idle", "uploading"}
  /\ \E ev \in DedupEvents : skipMessageEventCall(ev)

InitDedup == cfg \in DedupConfigs /\ InitRest /\ Connected

\* The behaviour is followed up to the sighting.
NextDedup ==
  /\ seen = <<>>
  /\ \/ SendDedup
     \/ uploadFileCall
     \/ \E a \in UploadAnswers : uploadFileAnswer(a)
     \/ SendReturn
     \/ Tick
     \/ sightOne

SpecDedup == InitDedup /\ [][NextDedup]_vars

\* The sighting s shows the filename of the upload u less than 10s after the
\* time taken for u.
NameWindow(s, u) ==
  s.ev.Files[1].Name = u.name /\ s.at - u.ts < 10

\* The sighting s shows the file ID the platform gave to the upload u, less than
\* 60s after the time taken for u.
IDWindow(s, u) ==
  u.done /\ u.fid # "" /\ s.ev.Files[1].ID = u.fid /\ s.at - u.ts < 60

Uploaded(u) == u.done /\ u.fid # ""

InWindow(s) ==
  \E j \in 1..Len(uploads) : NameWindow(s, uploads[j]) \/ IDWindow(s, uploads[j])

JoinOrLeave(s) == s.ev.SubType \in {sChannelJoin, sChannelLeave}

\* C5 as stated: after an upload the platform gave an ID to, a sighting of that
\* file within the filename window or the ID window is skipped whatever else was
\* sent in between, and a sighting outside every window is not skipped for its
\* files.
C5_DedupWindows ==
  \A i \in 1..Len(seen) :
    /\ \A j \in 1..Len(uploads) :
         Uploaded(uploads[j])
           /\ (NameWindow(seen[i], uploads[j]) \/ IDWindow(seen[i], uploads[j]))
         => seen[i].skipped
    /\ ~InWindow(seen[i]) /\ ~JoinOrLeave(seen[i]) => ~seen[i].skipped

\* C5, corrected: a sighting within the filename window is skipped if the
\* filename marker is still in the cache, one within the ID window if the ID
\* marker is; a join or leave event is skipped exactly when join/leave
\* suppression is on; any other sighting that is skipped lies within a window of
\* some upload, measured from the time taken before the upload call.
C5_DedupWhileCached ==
  \A i \in 1..Len(seen) :
    IF JoinOrLeave(seen[i])
      THEN seen[i].skipped = cfg.noSendJoin
      ELSE /\ \A j \in 1..Len(uploads) :
                /\ NameWindow(seen[i], uploads[j]) /\ seen[i].hadName => seen[i].skipped
                /\ IDWindow(seen[i], uploads[j]) /\ seen[i].hadID => seen[i].skipped
           /\ seen[i].skipped => InWindow(seen[i])

\* Another file was uploaded after the first; the first file is seen again by
\* its ID, under another name, 50s or more after its upload, and is skipped.
C5_Witness ==
  /\ Len(uploads) = 2 /\ Len(seen) = 1
  /\ Uploaded(uploads[1]) /\ uploads[2].done /\ uploads[2].name # uploads[1].name
  /\ seen[1].ev.SubType = ""
  /\ seen[1].ev.Files[1].ID = uploads[1].fid
  /\ seen[1].ev.Files[1].Name # uploads[1].name
  /\ seen[1].at - uploads[1].ts >= 50
  /\ uploads[2].ts - uploads[1].ts >= 10
  /\ seen[1].skipped

-----------------------------------------------------------------------------
(* handleSlackEvents *)

\* b.channels.getChannelByID: channel C1 is named "general"; no other ID is known.
\* C23: a sighting of a file is never skipped on account of an upload that
\* failed: where a sighting is skipped for its files, it lies within the
\* filename or ID window of an upload that has not failed.
C23_FailedUploadNoMarker ==
  \A i \in 1..Len(seen) :
    seen[i].skipped /\ ~JoinOrLeave(seen[i])
      => \E j \in 1..Len(uploads) :
           /\ ~uploads[j].failed
           /\ NameWindow(seen[i], uploads[j]) \/ IDWindow(seen[i], uploads[j])

ChannelByID(id) == IF id = "C1" THEN [ok |-> TRUE, Name |-> "general"]
                   ELSE [ok |-> FALSE, Name |-> ""]

NoEvent == [Type |-> "", SubType |-> "", User |-> "", Text |-> "", Channel |-> "",
            DeletedTs |-> ""]

\* The bodies posted to /slack/events, as json.Unmarshal reads them into the
\* wrapper; a challenge can be of a type the second Unmarshal rejects.
Requests ==
  [Type : {"url_verification"}, Challenge : {"c1"}, challengeOK : BOOLEAN, Event : {NoEvent}]
  \cup [Type : {"", "app_rate_limited"}, Challenge : {""}, challengeOK : {TRUE},
        Event : {NoEvent}]
  \cup [Type : {"event_callback"}, Challenge : {""}, challengeOK : {TRUE},
        Event : {[NoEvent EXCEPT !.Type = "reaction_added", !.User = "U1"]}
                \cup {e \in [Type : {"message"}, SubType : {"", "bot_message", sMessageDeleted},
                            User : {"", "U1", "U2"}, Text : {"", "hello"},
                            Channel : {"C1", "Cx"}, DeletedTs : {"", "42"}] :
                        e.DeletedTs # "" => e.SubType = sMessageDeleted}]

\* b.sc.GetUserInfo: a display name, no display name, or an error.
UserAnswers == {[k |-> "ok", DisplayName |-> "alice"], [k |-> "ok", DisplayName |-> ""],
                [k |-> "error", DisplayName |-> ""]}

\* The call is made for a message of a user in a known channel.
AsksUser(r) ==
  /\ r.Type = "event_callback" /\ r.Event.Type = "message" /\ r.Event.SubType # "bot_message"
  /\ ChannelByID(r.Event.Channel).ok
  /\ r.Event.User # ""

\* The message with the display name the lookup gave, whatever it gave.
EventMessage_NoFallback(r, a) ==
  [Event |-> "", ID |-> "", Text |-> r.Event.Text,
   Channel |-> ChannelByID(r.Event.Channel).Name,
   Username |-> a.DisplayName, ParentID |-> "", Extra |-> NoExtra]

\* The message handleSlackEvents builds.
EventMessage(r, a) ==
  [Event |-> "", ID |-> "",
   Text |-> r.Event.Text,
   Channel |-> ChannelByID(r.Event.Channel).Name,
   Username |-> IF r.Event.User # "" /\ a.k = "ok" /\ a.DisplayName # ""
                  THEN a.DisplayName ELSE r.Event.User,
   ParentID |-> "", Extra |-> NoExtra]

\* handleSlackEvents, one request: what it forwards (fwd: the place in the
\* relay's queue, 0 for nothing) and what it answers. A handler that returns
\* without writing leaves the server's default answer, 200 with no body.
handleSlackEvents(r, a) ==
  /\ Len(resp) < MaxRequests
  /\ AsksUser(r) \/ a = [k |-> "error", DisplayName |-> ""]
  /\ req' = r
  /\ IF r.Type = "url_verification"
       THEN /\ resp' = Append(resp,
                 IF r.challengeOK
                   THEN [req |-> r, ans |-> a, status |-> 200, body |-> r.Challenge, fwd |-> 0]
                   ELSE [req |-> r, ans |-> a, status |-> 400, body |-> "bad request",
                         fwd |-> 0])
            /\ remote' = remote
     ELSE IF r.Type = "event_callback" /\ r.Event.Type = "message"
             /\ r.Event.SubType # "bot_message" /\ ChannelByID(r.Event.Channel).ok
       THEN /\ remote' = Append(remote, EventMessage(r, a))
            /\ resp' = Append(resp, [req |-> r, ans |-> a, status |-> 200, body |-> "",
                                     fwd |-> Len(remote) + 1])
     ELSE /\ resp' = Append(resp, [req |-> r, ans |-> a, status |-> 200, body |-> "",
                                   fwd |-> 0])
          /\ remote' = remote
  /\ UNCHANGED <<cfg, deleted, other, b, joins, inbound, pc, sent, via, msg, extraQ, fileIx, uploadTs, messageID, rlCount, calls,
                 slept, ret, cache, now, nextFid, uploads, seen>>

\* With a token, Connect serves /slack/events.
EventConfigs == {c \in SendConfigs : c.token # "" /\ ~c.syncTopic /\ ~c.showTopicChange
                                     /\ ~c.nickPrefix}

InitEvents == cfg \in EventConfigs /\ InitRest /\ Connected

NextEvents == \E r \in Requests, a \in UserAnswers : handleSlackEvents(r, a) /\ UNCHANGED conns

SpecEvents == InitEvents /\ [][NextEvents]_vars

\* C9: an inbound message event of subtype message_deleted with deleted
\* timestamp t has a message with Event = MsgDelete and ID = t forwarded to the
\* relay.
C9_DeleteForwarded ==
  \A i \in 1..Len(resp) :
    LET r == resp[i].req
    IN r.Type = "event_callback" /\ r.Event.Type = "message"
       /\ r.Event.SubType = sMessageDeleted /\ r.Event.DeletedTs # ""
       /\ ChannelByID(r.Event.Channel).ok
       => /\ resp[i].fwd # 0
          /\ remote[resp[i].fwd].Event = EventMsgDelete
          /\ remote[resp[i].fwd].ID = r.Event.DeletedTs

\* The request is an event_callback envelope with a message event that is not
\* a bot message.
UserMessage(r) ==
  r.Type = "event_callback" /\ r.Event.Type = "message" /\ r.Event.SubType # "bot_message"

\* C22: for an event_callback envelope with a message event that is not a bot
\* message, a channel ID that resolves gives exactly one message handed to
\* the relay, with the event's text, the channel's name and, as username, the
\* display name, or the raw user ID when the lookup fails or the display name
\* is empty, and the answer 200; a channel ID that does not resolve gives
\* nothing handed to the relay.  Nothing else is handed to the relay.
C22_MessageForwarded ==
  /\ \A i \in 1..Len(resp) :
       LET r == resp[i].req
           a == resp[i].ans
       IN IF UserMessage(r) /\ ChannelByID(r.Event.Channel).ok
            THEN /\ resp[i].fwd \in 1..Len(remote)
                 /\ \A j \in 1..Len(resp) : resp[j].fwd = resp[i].fwd => j = i
                 /\ remote[resp[i].fwd].Text = r.Event.Text
                 /\ remote[resp[i].fwd].Channel = ChannelByID(r.Event.Channel).Name
                 /\ remote[resp[i].fwd].Username =
                      (IF a.k = "error" \/ a.DisplayName = "" THEN r.Event.User
                       ELSE a.DisplayName)
                 /\ resp[i].status = 200
            ELSE resp[i].fwd = 0
  /\ Len(remote) = Cardinality({i \in 1..Len(resp) : resp[i].fwd # 0})

\* A message whose user could not be looked up was handed on under the raw
\* user ID.
C22_Witness ==
  \E i \in 1..Len(resp) :
    /\ UserMessage(resp[i].req) /\ resp[i].req.Event.User = "U1"
    /\ resp[i].ans.k = "error"
    /\ resp[i].fwd # 0
    /\ remote[resp[i].fwd].Username = "U1"
    /\ resp[i].status = 200

-----------------------------------------------------------------------------
(* Connect, Send, the events listener and Disconnect *)

\* Every combination of token, outgoing webhook URL and incoming bind address.
LifeConfigs ==
  [token : {"", "xoxb-1"}, webhookURL : {"", "https://hook"}, bind : {"", ":9999"},
   syncTopic : {FALSE}, showTopicChange : {FALSE}, nickPrefix : {FALSE},
   noSendJoin : {FALSE}, messageClipped : {""}]

LifeMessages ==
  {m \in Messages : m.Event = "" /\ m.ID = "" /\ m.Text = "hello" /\ m.ParentID = ""
                    /\ m.Channel = "general" /\ m.Extra = NoExtra}

LifeRequests ==
  {r \in Requests : \/ r.Type = "url_verification" /\ r.challengeOK
                    \/ /\ r.Type = "event_callback" /\ r.Event.Type = "message"
                       /\ r.Event.SubType = "" /\ r.Event.User = "U1"
                       /\ r.Event.Text = "hello" /\ r.Event.Channel = "C1"
                       /\ r.Event.DeletedTs = ""}

\* Connect, called once on a new bridge.
Connect ==
  /\ b.state = "new"
  /\ b' = ConnectResult(cfg, b)
  /\ UNCHANGED <<cfg, deleted, other, pc, sent, via, msg, extraQ, fileIx, uploadTs, messageID, rlCount, calls,
                 slept, ret, remote, cache, now, nextFid, uploads, seen, req, resp, conns, joins,
                 inbound>>

\* Disconnect: eventServer.Close() closes the listener and every connection,
\* whatever its handler is doing; without a listener nothing happens.
Disconnect ==
  /\ b.state = "connected"
  /\ IF b.eventServer # "nil"
       THEN /\ b' = [b EXCEPT !.eventServer = "closed"]
            /\ conns' = [i \in 1..Len(conns) |-> [conns[i] EXCEPT !.closed = TRUE]]
       ELSE UNCHANGED <<b, conns>>
  /\ UNCHANGED <<cfg, deleted, other, pc, sent, via, msg, extraQ, fileIx, uploadTs, messageID, rlCount, calls,
                 slept, ret, remote, cache, now, nextFid, uploads, seen, req, resp, joins, inbound>>

\* The listener accepts a request: its handler starts on a connection.
acceptRequest(r) ==
  /\ b.eventServer = "serving"
  /\ Len(conns) < MaxRequests
  /\ conns' = Append(conns, [req |-> r, stage |-> "active", closed |-> FALSE])
  /\ UNCHANGED <<cfg, deleted, other, pc, sent, via, msg, extraQ, fileIx, uploadTs, messageID, rlCount, calls,
                 slept, ret, remote, cache, now, nextFid, uploads, seen, req, resp, b, joins, inbound>>

\* The handler of connection i runs: the answer reaches the platform only if
\* the connection is still open.
serveRequest(i, a) ==
  /\ conns[i].stage = "active"
  /\ handleSlackEvents(conns[i].req, a)
  /\ conns' = [conns EXCEPT ![i].stage = IF conns[i].closed THEN "lost" ELSE "answered"]

\* The relay calls Send on a connected bridge (one Send is followed).
SendLife ==
  /\ b.state = "connected"
  /\ pc = "idle"
  /\ \E m \in LifeMessages : SendBegin(m)

InitLife == cfg \in LifeConfigs /\ InitRest /\ b = newBridge(FALSE)

NextLife ==
  \/ Connect
  \/ Disconnect
  \/ \E r \in LifeRequests : acceptRequest(r)
  \/ \E i \in 1..Len(conns), a \in UserAnswers : serveRequest(i, a)
  \/ SendLife
  \/ \E a \in Answers : postAPIMessage(a)
  \/ \E a \in HookAnswers : webhookSend(a)

SpecLife == InitLife /\ [][NextLife]_vars

\* C12: Connect returns its error exactly when none of token, bind address and
\* webhook URL is set, and then it has built no client and started no listener
\* and no receive loop.
C12_ConnectError ==
  /\ b.state = "failed" <=> (b.state # "new" /\ cfg.token = "" /\ cfg.bind = ""
                              /\ cfg.webhookURL = "")
  /\ b.state = "failed" =>
       /\ ~b.sc /\ ~b.channels /\ ~b.users /\ ~b.mh
       /\ b.eventServer = "nil" /\ ~b.handleSlack

C12_Witness ==
  b.state = "failed" /\ cfg.token = "" /\ cfg.bind = "" /\ cfg.webhookURL = ""

\* C13: a request in flight when Disconnect is called is answered before its
\* connection is closed.
C13_Drained ==
  \A i \in 1..Len(conns) : conns[i].closed => conns[i].stage = "answered"

\* C18: in a configuration Connect accepts, a Send routed to sendAPI finds the
\* client and the channel directory built, a Send routed to sendWebhook the
\* webhook client.
C18_TransportBuilt ==
  /\ b.state = "connected" /\ via = "api" => b.sc /\ b.channels
  /\ b.state = "connected" /\ via = "webhook" => b.mh

-----------------------------------------------------------------------------
(* JoinChannel *)

\* The answers of JoinConversation: success, or an error with this text.
JoinAnswers == {"ok", "name_taken", "restricted_action", "default", "channel_not_found",
                "is_archived"}

JoinChannels == {"general", "nowhere", "ID:C1"}

\* strings.HasPrefix(name, "ID:")
HasIDPrefix(name) == Len(name) >= 3 /\ SubSeq(name, 1, 3) = "ID:"

\* b.channels.getChannel: by name, or by ID behind the prefix "ID:".
ChannelKnown(name) == name \in {"general", "ID:C1"}

\* JoinChannel's switch on the text of the join error: the first case does
\* nothing, the second returns the error whose text is "default".
JoinErrorReturned(a) == a = "default"

\* JoinChannel: what it returns ("nil" for no error) for the channel name, the
\* answer a to the legacy join and whether the bridge's account is a member.
JoinChannelResult(bb, name, a, member) ==
  IF ~bb.sc THEN "nil"
  ELSE IF bb.legacy /\ a # "ok" /\ JoinErrorReturned(a) THEN a
  ELSE IF ~ChannelKnown(name) THEN "could not join channel"
  ELSE IF ~member /\ ~bb.legacy THEN "not member of channel"
  ELSE "nil"

JoinChannel(name, a, member) ==
  /\ b.state = "connected"
  /\ Len(joins) < MaxJoins
  /\ (b.sc /\ b.legacy) \/ a = "ok"
  /\ joins' = Append(joins, [name |-> name, attempted |-> b.sc /\ b.legacy, answer |-> a,
                             member |-> member,
                             err |-> JoinChannelResult(b, name, a, member)])
  /\ b' = IF b.sc /\ ~(b.legacy /\ a # "ok" /\ JoinErrorReturned(a))
             /\ ChannelKnown(name) /\ HasIDPrefix(name)
            THEN [b EXCEPT !.useChannelID = TRUE] ELSE b
  /\ UNCHANGED <<cfg, deleted, other, pc, sent, via, msg, extraQ, fileIx, uploadTs, messageID, rlCount, calls,
                 slept, ret, remote, cache, now, nextFid, uploads, seen, req, resp, conns, inbound>>

InitJoin == cfg \in LifeConfigs /\ InitRest /\ \E legacy \in BOOLEAN : b = newBridge(legacy)

NextJoin ==
  \/ Connect
  \/ \E name \in JoinChannels, a \in JoinAnswers, member \in BOOLEAN : JoinChannel(name, a, member)

SpecJoin == InitJoin /\ [][NextJoin]_vars

\* C14: of the errors of the legacy join, only name_taken and restricted_action
\* are swallowed; every other one is what JoinChannel returns.
C14_JoinErrors ==
  \A j \in 1..Len(joins) :
    joins[j].attempted /\ joins[j].answer \notin {"ok", "name_taken", "restricted_action"}
      => joins[j].err = joins[j].answer

-----------------------------------------------------------------------------
(* handleMessageEvent: handleStatusEvent, handleAttachments, handleDownloadFile *)

\* populateReceivedMessage: an error, or the message it builds for the event;
\* its text and username are whatever the event and the user directory give.
PopulateError == [ok |-> FALSE, Text |-> "", Username |-> ""]

populateReceivedMessage ==
  {PopulateError} \cup [ok : {TRUE}, Text : {"", "hello"}, Username : {"", "alice"}]

\* The message populateReceivedMessage built, for the outcome p.
Populated(ev, p) ==
  [Event |-> "", ID |-> ev.Timestamp, Text |-> p.Text, Username |-> p.Username,
   Channel |-> ChannelByID(ev.Channel).Name, ParentID |-> "", Extra |-> NoExtra]

\* handleStatusEvent: the message it leaves and whether the event is handled.
handleStatusEvent(ev, rmsg) ==
  IF ev.SubType \in {sChannelJoined, sMemberJoined} THEN [rmsg |-> rmsg, handled |-> TRUE]
  ELSE IF ev.SubType \in {sChannelJoin, sChannelLeave}
    THEN [rmsg |-> [rmsg EXCEPT !.Username = sSystemUser, !.Event = EventJoinLeave],
          handled |-> FALSE]
  ELSE IF ev.SubType \in {sChannelTopic, sChannelPurpose}
    THEN [rmsg |-> [rmsg EXCEPT !.Event = EventTopicChange], handled |-> FALSE]
  ELSE IF ev.SubType = sMessageChanged
    THEN IF ev.SubMessage.Text = DeletedNotice
           THEN [rmsg |-> [rmsg EXCEPT !.Text = ev.SubMessage.Text, !.Event = EventMsgDelete],
                 handled |-> TRUE]
           ELSE [rmsg |-> [rmsg EXCEPT !.Text = ev.SubMessage.Text], handled |-> FALSE]
  ELSE IF ev.SubType = sMessageDeleted
    THEN [rmsg |-> [rmsg EXCEPT !.Text = EventMsgDelete, !.Event = EventMsgDelete,
                                !.ID = ev.DeletedTimestamp],
          handled |-> TRUE]
  ELSE IF ev.SubType = sMeMessage
    THEN [rmsg |-> [rmsg EXCEPT !.Event = EventUserAction], handled |-> FALSE]
  ELSE [rmsg |-> rmsg, handled |-> FALSE]

\* getMessageTitle
getMessageTitle(attach) ==
  IF attach.TitleLink # ""
    THEN "[" \o attach.Title \o "](" \o attach.TitleLink \o ")\n"
    ELSE attach.Title

\* One round of handleAttachments' loop over the attachments: the text after
\* the attachment, from the text before it.
AttachmentStep(text, attach) ==
  IF attach.Text # ""
    THEN (IF attach.Title # "" THEN getMessageTitle(attach) ELSE text)
         \o attach.Text
         \o (IF attach.Footer # "" THEN "\n\n" \o attach.Footer ELSE "")
    ELSE attach.Fallback

RECURSIVE AttachmentLoop(_, _)
AttachmentLoop(text, attachments) ==
  IF attachments = <<>> THEN text
  ELSE AttachmentLoop(AttachmentStep(text, Head(attachments)), Tail(attachments))

\* handleAttachments: the text, synthesized from the attachments when it is empty.
AttachmentText(text, attachments) ==
  IF text = "" THEN AttachmentLoop(text, attachments) ELSE text

\* What a download can meet: the size and blacklist policy lets the file
\* through or not; a fetch fails, or gives data of the declared size or of
\* another size.
FetchOutcomes ==
  [policy : {"ok"}, first : {"error", "match"}, second : {"match"}]
  \cup [policy : {"ok"}, first : {"mismatch"}, second : {"error", "match", "mismatch"}]
  \cup [policy : {"reject"}, first : {"match"}, second : {"match"}]

NoMessage == [Event |-> "none", ID |-> "", Text |-> "", Username |-> "", Channel |-> "",
              ParentID |-> "", Extra |-> NoExtra]

ErrDownload == "download failed"

\* A first attempt always gives up on a size mismatch without another fetch.
SizeMismatchRetry_Never(got, retry) == FALSE

\* len(*data) != file.Size && !retry
SizeMismatchRetry(got, retry) == got = "mismatch" /\ ~retry

\* handleDownloadFile(rmsg, file, retry), with the cache c at time t: the
\* message, the cache and the time after it, the fetches made, the seconds
\* slept and the error returned.  The retry runs the whole function again.
RECURSIVE handleDownloadFile(_, _, _, _, _, _)
handleDownloadFile(rmsg, c, t, file, fo, retry) ==
  LET c1 == fileCachedTouch(c, file, t)
      got == IF retry THEN fo.second ELSE fo.first
  IN IF fileCached(c, file, t)
       THEN [rmsg |-> rmsg, cache |-> c1, now |-> t, fetches |-> <<>>, slept |-> 0, err |-> NoErr]
     ELSE IF fo.policy = "reject"
       THEN [rmsg |-> rmsg, cache |-> c1, now |-> t, fetches |-> <<>>, slept |-> 0, err |-> NoErr]
     ELSE IF got = "error"
       THEN [rmsg |-> rmsg, cache |-> c1, now |-> t, fetches |-> <<got>>, slept |-> 0,
             err |-> ErrDownload]
     ELSE IF SizeMismatchRetry(got, retry)
       THEN LET r == handleDownloadFile(rmsg, c1, t + 1, file, fo, TRUE)
            IN [r EXCEPT !.fetches = <<got>> \o @, !.slept = 1 + @]
     ELSE [rmsg |-> [rmsg EXCEPT !.Text = "",
                                 !.Extra.file = Append(@, [Name |-> file.Name,
                                                           Comment |-> rmsg.Text, URL |-> ""])],
           cache |-> c1, now |-> t, fetches |-> <<got>>, slept |-> 0, err |-> NoErr]

\* handleAttachments' loop over the files: the channel-binding marker, then the
\* download; an error is logged and the loop goes on.  log has one entry a file.
RECURSIVE DownloadLoop(_, _, _, _, _, _, _)
DownloadLoop(rmsg, c, t, channel, files, fos, log) ==
  IF files = <<>> THEN [rmsg |-> rmsg, cache |-> c, now |-> t, log |-> log]
  ELSE LET f == Head(files)
           r == handleDownloadFile(rmsg, CacheAdd(c, cfileDownloadChannel \o f.ID, channel),
                                   t, f, Head(fos), FALSE)
       IN DownloadLoop(r.rmsg, r.cache, r.now, channel, Tail(files), Tail(fos),
                       Append(log, [file |-> f, fetches |-> r.fetches, slept |-> r.slept,
                                    err |-> r.err,
                                    cached |-> fileCached(
                                      CacheAdd(c, cfileDownloadChannel \o f.ID, channel), f, t),
                                    attached |-> Len(r.rmsg.Extra.file) > Len(rmsg.Extra.file)]))

\* handleAttachments
handleAttachments(ev, rmsg, c, t, fos) ==
  LET r1 == IF ev.SubType = sFileComment THEN [rmsg EXCEPT !.Username = sSystemUser] ELSE rmsg
      r2 == [r1 EXCEPT !.Text = AttachmentText(r1.Text, ev.Attachments)]
      r3 == IF ev.Attachments # <<>>
              THEN [r2 EXCEPT !.Extra.slack_attachment = Append(@, ev.Attachments)]
              ELSE r2
  IN DownloadLoop(r3, c, t, ev.Channel, ev.Files, fos, <<>>)

ErrPopulate == "populate failed"
ErrEmptyBot == "empty bot message"
ErrEmptySub == "empty message with submessage"
ErrEmpty == "empty message"

\* The cause of an empty message, looking at the sub-event first.
EmptyCause_SubFirst(ev) ==
  IF ev.SubMessage.present THEN ErrEmptySub
  ELSE IF ev.BotID # "" THEN ErrEmptyBot
  ELSE ErrEmpty

\* The error handleMessageEvent returns for an empty message.
EmptyCause(ev) ==
  IF ev.BotID # "" THEN ErrEmptyBot
  ELSE IF ev.SubMessage.present THEN ErrEmptySub
  ELSE ErrEmpty

\* handleMessageEvent's last step: a message without files needs a text and a
\* username.
Validate(ev, rmsg) ==
  IF Len(ev.Files) = 0 /\ (rmsg.Text = "" \/ rmsg.Username = "")
    THEN EmptyCause(ev)
    ELSE NoErr

\* handleMessageEvent(ev) where populateReceivedMessage gives p and the
\* downloads meet fos: what it returns (rmsg is NoMessage for nil), with the
\* cache and the time after it.
handleMessageEventResult(ev, p, fos, c, t) ==
  IF ~p.ok
    THEN [rmsg |-> NoMessage, err |-> ErrPopulate, handled |-> FALSE, cache |-> c, now |-> t,
          log |-> <<>>, after |-> NoMessage]
  ELSE LET s == handleStatusEvent(ev, Populated(ev, p))
       IN IF s.handled
            THEN [rmsg |-> s.rmsg, err |-> NoErr, handled |-> TRUE, cache |-> c, now |-> t,
                  log |-> <<>>, after |-> s.rmsg]
          ELSE LET a == handleAttachments(ev, s.rmsg, c, t, fos)
                   e == Validate(ev, a.rmsg)
               IN [rmsg |-> IF e = NoErr THEN a.rmsg ELSE NoMessage, err |-> e,
                   handled |-> FALSE, cache |-> a.cache, now |-> a.now, log |-> a.log,
                   after |-> a.rmsg]

\* One call of handleMessageEvent.
handleMessageEvent(ev, p, fos) ==
  /\ Len(fos) = Len(ev.Files)
  /\ now + Len(ev.Files) <= MaxTime
  /\ LET r == handleMessageEventResult(ev, p, fos, cache, now)
     IN /\ inbound' = Append(inbound,
               [ev |-> ev, p |-> p, fos |-> fos, at |-> now, rmsg |-> r.rmsg, err |-> r.err,
                handled |-> r.handled, after |-> r.after, log |-> r.log])
        /\ cache' = r.cache
        /\ now' = r.now
  /\ UNCHANGED <<cfg, deleted, other, b, conns, joins, pc, sent, via, msg, extraQ, fileIx, uploadTs, messageID,
                 rlCount, calls, slept, ret, remote, nextFid, uploads, seen, req, resp>>

------------------------------------------------------------------------------
(* Inbound message events, after uploads of the bridge's own *)

MaxAttachments == 2
MaxInboundFiles == 2

InboundConfigs == {c \in SkipConfigs : ~c.noSendJoin}

\* slack.Attachment: the fields handleAttachments reads.
Attachments ==
  { [Text |-> "a", Title |-> "", TitleLink |-> "", Footer |-> "", Fallback |-> "fa"],
    [Text |-> "b", Title |-> "T", TitleLink |-> "", Footer |-> "", Fallback |-> ""],
    [Text |-> "c", Title |-> "T", TitleLink |-> "L", Footer |-> "f", Fallback |-> ""],
    [Text |-> "", Title |-> "T", TitleLink |-> "", Footer |-> "", Fallback |-> "fb"],
    [Text |-> "", Title |-> "", TitleLink |-> "", Footer |-> "", Fallback |-> ""] }

AttachmentLists == UNION { [1..k -> Attachments] : k \in 0..MaxAttachments }

\* The k-th file of an event: one of the bridge's own uploads seen again, or a
\* file of somebody else's.
InboundFile(k) ==
  IF k = 1 THEN [ID |-> FileID(1), Name |-> FileInfo(1).Name]
  ELSE [ID |-> "X" \o ToString(k), Name |-> "x" \o ToString(k)]

InboundFiles(n) == [k \in 1..n |-> InboundFile(k)]

InboundSubTypes == {"", sChannelJoined, sMemberJoined, sChannelJoin, sChannelTopic,
                    sMessageChanged, sMessageDeleted, sMeMessage, sFileComment}

InboundSubMessages ==
  {[present |-> FALSE, Text |-> ""]} \cup [present : {TRUE}, Text : {"", "edited", DeletedNotice}]

\* slack.MessageEvent: the platform sends a message_changed event with its
\* sub-event; an event has several attachments or several files within the
\* bounds, and one of each when it has both.
MessageEvents ==
  { ev \in [SubType : InboundSubTypes, BotID : {"", "B1"}, SubMessage : InboundSubMessages,
            Timestamp : {"1700.5"}, DeletedTimestamp : {"1700.4"}, Channel : {"C1"},
            Attachments : AttachmentLists,
            Files : {InboundFiles(n) : n \in 0..MaxInboundFiles}] :
      /\ ev.SubType = sMessageChanged => ev.SubMessage.present
      /\ ev.Attachments # <<>> /\ ev.Files # <<>>
           => Len(ev.Attachments) = 1 /\ Len(ev.Files) = 1 }

\* A plain message with files and nothing else.
FileEvents ==
  { ev \in MessageEvents :
      /\ ev.SubType = "" /\ ev.BotID = "" /\ ~ev.SubMessage.present
      /\ ev.Attachments = <<>> /\ ev.Files # <<>> }

InboundMessages == {m \in DedupMessages : m.Extra.file[1].Name = FileInfo(1).Name}

SendInbound ==
  /\ pc = "idle"
  /\ inbound = <<>>
  /\ Len(uploads) < MaxUploads
  /\ \E m \in InboundMessages : SendBegin(m)

\* An event arrives while no Send is running: any event before the bridge has
\* uploaded anything, an event with files after that.
handleOne ==
  /\ pc = "idle"
  /\ inbound = <<>>
  /\ \E ev \in (IF uploads = <<>> THEN MessageEvents ELSE FileEvents) :
       \E p \in (IF uploads = <<>> THEN populateReceivedMessage
                 ELSE {q \in populateReceivedMessage : q.ok /\ q.Text # "" /\ q.Username # ""}) :
         \E fos \in [1..Len(ev.Files) -> FetchOutcomes] : handleMessageEvent(ev, p, fos)

InitInbound == cfg \in InboundConfigs /\ InitRest /\ Connected

NextInbound ==
  \/ SendInbound
  \/ uploadFileCall
  \/ \E a \in UploadAnswers : uploadFileAnswer(a)
  \/ SendReturn
  \/ handleOne

SpecInbound == InitInbound /\ [][NextInbound]_vars

\* The event of inbound[i] went through handleAttachments and the last check.
Validated(i) == inbound[i].p.ok /\ ~inbound[i].handled

\* The message of inbound[i] ended up without a text or without a username.
EndedEmpty(i) == inbound[i].after.Text = "" \/ inbound[i].after.Username = ""

\* C15 as stated: every event without files whose message ends up with an
\* empty text or an empty username gets an error and no message, the cause
\* being the bot ID first, the sub-event second, generic otherwise.
C15_EmptyMessageError ==
  \A i \in 1..Len(inbound) :
    inbound[i].p.ok /\ Len(inbound[i].ev.Files) = 0 /\ EndedEmpty(i)
      => /\ inbound[i].rmsg = NoMessage
         /\ inbound[i].err = (IF inbound[i].ev.BotID # "" THEN ErrEmptyBot
                              ELSE IF inbound[i].ev.SubMessage.present THEN ErrEmptySub
                              ELSE ErrEmpty)

\* C15, corrected: for an event that handleStatusEvent does not fully handle,
\* an error is returned exactly when the event has no files and the message
\* after attachment handling has an empty text or an empty username; then no
\* message is returned and the cause is the bot ID first, the sub-event
\* second, generic otherwise.  A fully handled event is returned without
\* error whatever its text and username.
C15_EmptyAfterValidation ==
  \A i \in 1..Len(inbound) :
    /\ Validated(i) =>
         IF Len(inbound[i].ev.Files) = 0 /\ EndedEmpty(i)
           THEN /\ inbound[i].rmsg = NoMessage
                /\ inbound[i].err = (IF inbound[i].ev.BotID # "" THEN ErrEmptyBot
                                     ELSE IF inbound[i].ev.SubMessage.present THEN ErrEmptySub
                                     ELSE ErrEmpty)
           ELSE inbound[i].err = NoErr /\ inbound[i].rmsg = inbound[i].after
    /\ inbound[i].handled => inbound[i].err = NoErr /\ inbound[i].rmsg = inbound[i].after

\* An edited bot message without files ended up empty: it has both a bot ID
\* and a sub-event, and the error names the bot.
C15_Witness ==
  \E i \in 1..Len(inbound) :
    /\ Validated(i) /\ Len(inbound[i].ev.Files) = 0 /\ EndedEmpty(i)
    /\ inbound[i].ev.BotID # "" /\ inbound[i].ev.SubMessage.present
    /\ inbound[i].err = ErrEmptyBot

\* The text inbound[i] had when handleAttachments began.
TextBefore(i) == handleStatusEvent(inbound[i].ev, Populated(inbound[i].ev, inbound[i].p)).rmsg.Text

\* C19: when the text is empty and the event has several attachments, the
\* text handleAttachments makes is the text the last attachment alone gives.
C19_LastAttachmentAlone ==
  \A i \in 1..Len(inbound) :
    LET atts == inbound[i].ev.Attachments
    IN Validated(i) /\ TextBefore(i) = "" /\ Len(atts) >= 2 /\ Len(inbound[i].ev.Files) = 0
         => inbound[i].after.Text = AttachmentLoop("", <<atts[Len(atts)]>>)

\* The download of log entry d went as far as fetching.
Fetching(d, fo) == ~d.cached /\ fo.policy = "ok"

\* C20: a download makes at most two fetches; it makes a second one, after a
\* wait of one second, exactly when the first gave data of another size than
\* declared; what the second gives is attached even if the size differs
\* again; a fetch that fails is returned as the error, with no other fetch.
C20_AtMostTwoFetches ==
  \A i \in 1..Len(inbound) : \A k \in 1..Len(inbound[i].log) :
    LET d == inbound[i].log[k]
        fo == inbound[i].fos[k]
    IN /\ Len(d.fetches) <= 2
       /\ ~Fetching(d, fo) => d.fetches = <<>> /\ d.slept = 0 /\ d.err = NoErr /\ ~d.attached
       /\ Fetching(d, fo) =>
            /\ d.fetches # <<>> /\ d.fetches[1] = fo.first
            /\ Len(d.fetches) = 2 <=> fo.first = "mismatch"
            /\ Len(d.fetches) = 2 => d.fetches[2] = fo.second
            /\ d.slept = (IF Len(d.fetches) = 2 THEN 1 ELSE 0)
            /\ d.err = (IF d.fetches[Len(d.fetches)] = "error" THEN ErrDownload ELSE NoErr)
            /\ d.attached <=> d.fetches[Len(d.fetches)] # "error"
            /\ fo.first = "error" => d.fetches = <<"error">>

\* A file came with another size twice: it was fetched twice, one second
\* apart, and attached.
C20_Witness ==
  \E i \in 1..Len(inbound) : \E k \in 1..Len(inbound[i].log) :
    /\ inbound[i].log[k].fetches = <<"mismatch", "mismatch">>
    /\ inbound[i].log[k].slept = 1
    /\ inbound[i].log[k].attached
    /\ inbound[i].log[k].err = NoErr

\* A file the bridge uploaded itself came back: nothing was fetched.
C20_CachedWitness ==
  \E i \in 1..Len(inbound) : \E k \in 1..Len(inbound[i].log) :
    inbound[i].log[k].cached /\ inbound[i].log[k].fetches = <<>>

------------------------------------------------------------------------------
(* Send of texts at the clip limit *)

\* n copies of s, one after the other.
RECURSIVE Repeat(_, _)
Repeat(s, n) ==
  IF n = 0 THEN ""
  ELSE IF n % 2 = 0 THEN LET h == Repeat(s, n \div 2) IN h \o h
  ELSE s \o Repeat(s, n - 1)

\* A text of exactly messageLength characters, and one longer by one.
LimitText == Repeat("x", messageLength)
OverLimitText == LimitText \o "y"

ClipConfigs == {c \in SendConfigs : ~c.syncTopic /\ ~c.showTopicChange
                                    /\ (c.token # "" \/ c.webhookURL # "")}

ClipMessages ==
  [Event : {"", EventUserAction}, ID : {"", "123"},
   Text : {"hello", LimitText, OverLimitText},
   Username : {"bob"}, Channel : {"general"},
   ParentID : {"", ParentIDNotFound}, Extra : {NoExtra}]

SendClip == pc = "idle" /\ \E m \in ClipMessages : SendBegin(m)

InitClip == cfg \in ClipConfigs /\ InitRest /\ Connected

NextClip ==
  \/ SendClip
  \/ \E a \in Answers : editMessage(a)
  \/ \E a \in Answers : postAPIMessage(a)
  \/ \E a \in HookAnswers : webhookSend(a)

SpecClip == InitClip /\ [][NextClip]_vars

TextOps == {"PostMessage", "UpdateMessage", "WebhookSend"}

\* C24: the text of every post, edit and webhook call of a Send is at most
\* messageLength characters long.
C24_TextWithinLimit ==
  \A i \in Ops(TextOps) : Len(calls[i].text) <= messageLength

------------------------------------------------------------------------------
(* handleFileDeletedEvent, after message events with files and uploads *)

MaxInboundEvents == 2

ErrNoBinding == "channel ID for file not found"

\* b.channels.getChannelByID for the channel of a binding, at the time of the
\* deletion: the directory still knows the channel or, after a refresh, no
\* longer does.
BindingAnswers(id) == {ChannelByID(id), [ok |-> FALSE, Name |-> ""]}

\* handleFileDeletedEvent with a binding that gives the channel of no message.
handleFileDeletedEventResult_AnyChannel(fid, c, a) ==
  IF CacheHas(c, cfileDownloadChannel \o fid)
    THEN IF ~a.ok THEN [rmsg |-> NoMessage, err |-> ErrChannel]
         ELSE [rmsg |-> [NoMessage EXCEPT !.Event = EventFileDelete, !.Text = EventFileDelete,
                                          !.Channel = "", !.ID = fid],
               err |-> NoErr]
    ELSE [rmsg |-> NoMessage, err |-> ErrNoBinding]

\* handleFileDeletedEvent(ev) for the file ID fid with the cache c, the
\* directory answering a for the channel of the binding.
handleFileDeletedEventResult(fid, c, a) ==
  IF CacheHas(c, cfileDownloadChannel \o fid)
    THEN IF ~a.ok THEN [rmsg |-> NoMessage, err |-> ErrChannel]
         ELSE [rmsg |-> [NoMessage EXCEPT !.Event = EventFileDelete, !.Text = EventFileDelete,
                                          !.Channel = a.Name, !.ID = fid],
               err |-> NoErr]
    ELSE [rmsg |-> NoMessage, err |-> ErrNoBinding]

\* One call of handleFileDeletedEvent.
handleFileDeletedEvent(fid) ==
  /\ pc = "idle"
  /\ \E a \in (IF CacheHas(cache, cfileDownloadChannel \o fid)
                 THEN BindingAnswers(CacheVal(cache, cfileDownloadChannel \o fid))
                 ELSE {[ok |-> FALSE, Name |-> ""]}) :
       LET r == handleFileDeletedEventResult(fid, cache, a)
       IN deleted' = Append(deleted,
            [fid |-> fid, at |-> now, had |-> CacheHas(cache, cfileDownloadChannel \o fid),
             bound |-> IF CacheHas(cache, cfileDownloadChannel \o fid)
                         THEN CacheVal(cache, cfileDownloadChannel \o fid) ELSE "",
             dir |-> a, rmsg |-> r.rmsg, err |-> r.err])
  /\ cache' = CacheGet(cache, cfileDownloadChannel \o fid)
  /\ UNCHANGED <<cfg, other, b, conns, joins, inbound, pc, sent, via, msg, extraQ, fileIx,
                 uploadTs, messageID, rlCount, calls, slept, ret, remote, now, nextFid, uploads,
                 seen, req, resp>>

\* The file IDs a file-deleted event can name: files received, and one never
\* received.
DeletedFileIDs == {InboundFile(k).ID : k \in 1..MaxInboundFiles} \cup {"Fz"}

\* A message event with files arrives while no Send is running.
receiveFiles ==
  /\ pc = "idle"
  /\ Len(inbound) < MaxInboundEvents
  /\ \E ev \in FileEvents :
       \E p \in {q \in populateReceivedMessage : q.ok /\ q.Text # "" /\ q.Username # ""} :
         \E fos \in [1..Len(ev.Files) ->
                        {fo \in FetchOutcomes : fo.policy = "ok" /\ fo.first = "match"}] :
           handleMessageEvent(ev, p, fos)

SendFileDelete ==
  /\ pc = "idle"
  /\ Len(uploads) < MaxUploads
  /\ \E m \in InboundMessages : SendBegin(m)

\* A minute passes while no Send is running: every marker with a lifetime is
\* then too old to count.
WaitMinute ==
  /\ pc = "idle"
  /\ now + FileIDTTL <= MaxTime
  /\ now' = now + FileIDTTL
  /\ UNCHANGED <<cfg, deleted, other, b, conns, joins, inbound, pc, sent, via, msg, extraQ,
                 fileIx, uploadTs, messageID, rlCount, calls, slept, ret, remote, cache, nextFid,
                 uploads, seen, req, resp>>

InitFileDelete == cfg \in InboundConfigs /\ InitRest /\ Connected

\* The behaviour is followed up to the file-deleted event.
NextFileDelete ==
  /\ deleted = <<>>
  /\ \/ receiveFiles
     \/ SendFileDelete
     \/ uploadFileCall
     \/ \E a \in {x \in UploadAnswers : x.k = "ok" /\ x.ts = ""} : uploadFileAnswer(a)
     \/ SendReturn
     \/ WaitMinute
     \/ \E fid \in DeletedFileIDs : handleFileDeletedEvent(fid)

SpecFileDelete == InitFileDelete /\ [][NextFileDelete]_vars

\* The file of deleted[k] was received in inbound[i].
ReceivedIn(k, i) ==
  \E n \in 1..Len(inbound[i].ev.Files) : inbound[i].ev.Files[n].ID = deleted[k].fid

\* C21 as stated: a file-deleted event gives a FileDelete message with the
\* file's ID and the channel the file was received in exactly when the binding
\* marker of the file is still in the cache; without the marker it gives an
\* error and no message.
C21_DeleteIffBound ==
  \A k \in 1..Len(deleted) :
    IF deleted[k].had
      THEN /\ deleted[k].err = NoErr
           /\ deleted[k].rmsg.Event = EventFileDelete
           /\ deleted[k].rmsg.ID = deleted[k].fid
           /\ \E i \in 1..Len(inbound) :
                /\ ReceivedIn(k, i)
                /\ deleted[k].rmsg.Channel = ChannelByID(inbound[i].ev.Channel).Name
      ELSE deleted[k].err # NoErr /\ deleted[k].rmsg = NoMessage

\* C21, corrected: the message is given exactly when the binding marker is
\* still in the cache, however old, and the directory still resolves the
\* channel of the binding; it then has the file's ID and the name of the
\* channel of a message event the file was received in.  With the marker never
\* written, or evicted, or with a channel that no longer resolves, the handler
\* gives an error and no message.  A marker is in the cache only for a file
\* that was received.
C21_DeleteIffBoundAndResolved ==
  \A k \in 1..Len(deleted) :
    /\ deleted[k].had => \E i \in 1..Len(inbound) : ReceivedIn(k, i)
    /\ IF deleted[k].had /\ deleted[k].dir.ok
         THEN /\ deleted[k].err = NoErr
              /\ deleted[k].rmsg.Event = EventFileDelete
              /\ deleted[k].rmsg.ID = deleted[k].fid
              /\ \E i \in 1..Len(inbound) :
                   /\ ReceivedIn(k, i)
                   /\ deleted[k].rmsg.Channel = ChannelByID(inbound[i].ev.Channel).Name
         ELSE deleted[k].err # NoErr /\ deleted[k].rmsg = NoMessage

\* A file received 60s or more before is deleted: the message is given.
C21_Witness ==
  \E k \in 1..Len(deleted) :
    /\ deleted[k].had /\ deleted[k].dir.ok
    /\ deleted[k].rmsg.Event = EventFileDelete /\ deleted[k].rmsg.Channel = "general"
    /\ \A i \in 1..Len(inbound) : deleted[k].at - inbound[i].at >= 60

\* A file that was received is deleted after uploads have pushed its marker
\* out of the cache: an error is given.
C21_EvictedWitness ==
  \E k \in 1..Len(deleted) :
    /\ ~deleted[k].had /\ deleted[k].err = ErrNoBinding
    /\ \E i \in 1..Len(inbound) : ReceivedIn(k, i)

------------------------------------------------------------------------------
(* A Send in the retry loop, a second Send, the events listener, Disconnect. *)
(* Each runs in a goroutine of its own: the relay's two callers of Send, the *)
(* server's handler of each request, the caller of Disconnect.  A goroutine  *)
(* that can take its step takes it (weak fairness), except the first Send,   *)
(* which the platform may keep in its loop for ever.                         *)

\* A Send that waits for the Send in the retry loop to return.
MayRun_Serialized(p) == p \notin {"topic", "delete", "edit", "post"}

\* Send, sendAPI and the loops take no lock and wait for nothing but the
\* platform's answer and their own sleep: a Send runs whatever step p another
\* Send is at.
MayRun(p) == TRUE

BlockedConfigs == {c \in LifeConfigs : c.token # "" /\ c.webhookURL = "" /\ c.bind = ""}

\* The platform rate-limits the first Send, or accepts its call.
BlockedAnswers == {a \in Answers : a.k = "ok" \/ (a.k = "rate_limited" /\ a.w = 1)}

\* The second Send is a post, an edit or a deletion.
OtherMessages ==
  {m \in Messages : /\ m.Event \in {"", EventMsgDelete} /\ m.Text = "hello"
                    /\ m.Event = EventMsgDelete => m.ID # ""
                    /\ m.ParentID = "" /\ m.Channel = "general" /\ m.Extra = NoExtra}

\* The platform accepts a call.
Accepted == [k |-> "ok", w |-> 0]

SendBlocked == pc = "idle" /\ \E m \in LifeMessages : SendBegin(m)

\* Send(msg) in the second goroutine, up to its first platform call.
SendOther ==
  /\ other.pc = "idle"
  /\ MayRun(pc)
  /\ \E m \in OtherMessages :
       LET s == sendAPI(SendPrepare(m, cfg), cfg)
       IN other' = [pc |-> s.pc, during |-> pc, msg |-> s.msg, calls |-> <<>>,
                    ret |-> [id |-> s.id, err |-> s.err]]
  /\ UNCHANGED <<cfg, deleted, b, conns, joins, inbound, pc, sent, via, msg, extraQ, fileIx,
                 uploadTs, messageID, rlCount, calls, slept, ret, remote, cache, now, nextFid,
                 uploads, seen, req, resp>>

\* The call of the second Send, accepted by the platform, and its return.
stepOther ==
  /\ other.pc \in {"delete", "edit", "post"}
  /\ MayRun(pc)
  /\ LET o == IF other.pc = "delete" THEN deleteMessageLoop(Accepted)
              ELSE IF other.pc = "edit" THEN editMessageLoop(Accepted)
              ELSE postAPIMessageLoop(Accepted)
     IN /\ o.out = "return"
        /\ other' = [other EXCEPT
                       !.pc = "done",
                       !.calls = Append(@, IF other.pc = "delete" THEN "DeleteMessage"
                                           ELSE IF other.pc = "edit" THEN "UpdateMessage"
                                           ELSE "PostMessage"),
                       !.ret = [id |-> IF other.pc = "post" THEN PostTs ELSE other.msg.ID,
                                err |-> o.err]]
  /\ UNCHANGED <<cfg, deleted, b, conns, joins, inbound, pc, sent, via, msg, extraQ, fileIx,
                 uploadTs, messageID, rlCount, calls, slept, ret, remote, cache, now, nextFid,
                 uploads, seen, req, resp>>

\* The requests are message events, and the user lookup succeeds.
BlockedRequests == {r \in LifeRequests : r.Type = "event_callback"}

serveOne ==
  \E i \in 1..Len(conns), a \in {u \in UserAnswers : u.DisplayName # ""} : serveRequest(i, a)

InitBlocked == cfg \in BlockedConfigs /\ InitRest /\ Connected

NextBlocked ==
  \/ SendBlocked
  \/ \E a \in BlockedAnswers : postAPIMessage(a)
  \/ SendOther
  \/ stepOther
  \/ \E r \in BlockedRequests : acceptRequest(r)
  \/ serveOne
  \/ Disconnect

SpecBlocked ==
  /\ InitBlocked /\ [][NextBlocked]_vars
  /\ WF_vars(stepOther) /\ WF_vars(serveOne) /\ WF_vars(Disconnect)

=============================================================================
